---------------------------- MODULE Spec2Model ----------------------------
(***************************************************************************)
(* A model of the receive-side GPU decimation core of borealis:            *)
(*   - the two decimation kernels and the block-wide parallel reduction    *)
(*     (rx_signal_processing/decimate.cu), executed one thread block at a  *)
(*     time, one barrier interval per step;                                *)
(*   - the per-sequence orchestrator DSPCore (dsp.cu), its stream, its     *)
(*     two stream callbacks and their host workers.                        *)
(* Samples are complex numbers with integer components, so that sums are   *)
(* exact.                                                                  *)
(***************************************************************************)
EXTENDS Integers, Sequences, FiniteSets, TLC

VARIABLES
  \* ---- one kernel launch (decimate.cu)
  launch,            \* the launch: kernel, geometry, arguments, input data
  kpc,               \* position of the running block between two barriers
  todo,              \* blocks of the grid that have not run yet
  blockIdx,          \* <<x, y>> of the block that is running
  filter_products,   \* the block's shared memory
  total_sum,         \* parallel_reduce's register total_sum, per thread
  reduce_in,         \* the shared memory as parallel_reduce found it
  decimated_samples, \* the output buffer in device memory
  writes,            \* how many times each output slot was written
  \* ---- the sequences in flight (dsp.cu)
  main,              \* the host thread that submits the sequences
  dsp,               \* the DSPCore objects, by sequence
  stream,            \* work queued on each DSPCore's stream, oldest first
  running,           \* what each stream is executing
  began,             \* what each stream has begun to execute, in order
  decimate_calls,    \* the calls of call_decimate, with what they launched
  start_imc,         \* thread start_imc: next call of its handler
  start_pp,          \* thread start_pp: next call of postprocess
  in_send,           \* per socket, the threads inside send()
  raced,             \* per socket, the threads whose send() overlapped another
  acks,              \* sequence numbers received on the ack channel
  timings,           \* sequence numbers received on the timing channel
  kerneltimes,       \* the kernel time of each message on the timing channel
  shared_memory,     \* per sequence, whether its shared memory region exists
  process,           \* the host process: "running", or how it ended
  copied             \* the sequences whose RF samples are on the device, in
                     \* the order their copies completed

kvars == <<launch, kpc, todo, blockIdx, filter_products, total_sum,
           reduce_in, decimated_samples, writes>>

pvars == <<main, dsp, stream, running, began, decimate_calls, start_imc,
           start_pp, in_send, raced, acks, timings, kerneltimes,
           shared_memory, process, copied>>

vars == <<kvars, pvars>>

----------------------------------------------------------------------------
(* Bounds of the model.                                                    *)

MaxFreqs == 2
NumAntennas == 2
OutSamples == 2
NumSequences == 2
maxThreadsPerBlock == 1024
warpSize == 32

----------------------------------------------------------------------------
(* cuComplex arithmetic.                                                   *)

make_cuComplex(re, im) == <<re, im>>
cuCaddf(x, y) == <<x[1] + y[1], x[2] + y[2]>>
cuCmulf(x, y) == <<x[1] * y[1] - x[2] * y[2], x[1] * y[2] + x[2] * y[1]>>

Pow2(e) == IF e = 0 THEN 1 ELSE
           IF e = 1 THEN 2 ELSE
           IF e = 2 THEN 4 ELSE
           IF e = 3 THEN 8 ELSE
           IF e = 4 THEN 16 ELSE
           IF e = 5 THEN 32 ELSE
           IF e = 6 THEN 64 ELSE
           IF e = 7 THEN 128 ELSE
           IF e = 8 THEN 256 ELSE
           IF e = 9 THEN 512 ELSE
           IF e = 10 THEN 1024 ELSE
           IF e = 11 THEN 2048 ELSE 4096

Min(a, b) == IF a < b THEN a ELSE b

(* Sum of f(i) over lo..hi-1, by halving (the recursion stays shallow).    *)
RECURSIVE SumOver(_, _, _)
SumOver(f, lo, hi) ==
  IF hi <= lo THEN <<0, 0>>
  ELSE IF hi = lo + 1 THEN f[lo]
  ELSE LET mid == (lo + hi) \div 2
       IN cuCaddf(SumOver(f, lo, mid), SumOver(f, mid, hi))

----------------------------------------------------------------------------
(* The input data of a launch: samples and taps follow a named pattern.    *)

(* "mix" is alpha times the samples "ones" plus beta times the samples     *)
(* "ramp", alpha and beta being fields of the launch.                      *)
SamplePatterns == {"ones", "ramp", "mix"}
TapPatterns == {"ones", "rows"}

(* original_samples[idx] *)
original_samples(L, idx) ==
  IF L.spat = "ones" THEN make_cuComplex(1, 0)
  ELSE IF L.spat = "ramp" THEN make_cuComplex(1 + (idx % 3), idx % 2)
  ELSE cuCaddf(cuCmulf(L.alpha, make_cuComplex(1, 0)),
               cuCmulf(L.beta, make_cuComplex(1 + (idx % 3), idx % 2)))

(* filter_taps[idx]: "rows" gives every frequency row its own taps. *)
filter_taps(L, idx) ==
  IF L.tpat = "ones" THEN make_cuComplex(1, 0)
  ELSE make_cuComplex(1 + (idx \div L.num_taps_per_filter), idx % 2)

----------------------------------------------------------------------------
(* Launch geometry.                                                        *)

create_grid(num_samples, dm_rate, num_antennas) ==
  [x |-> num_samples \div dm_rate, y |-> num_antennas]

create_block(num_taps_per_filter, num_freqs) ==
  [x |-> num_taps_per_filter, y |-> num_freqs]

(* The wrappers: the launch configuration <<<dimGrid, dimBlock,            *)
(* shr_mem_taps, stream>>> of a kernel, shr_mem_taps in units of one       *)
(* cuComplex.                                                              *)
decimate1024_wrapper(dm_rate, samples_per_antenna, num_taps_per_filter, num_freqs, num_antennas) ==
  [kernel |-> "decimate1024",
   shr_mem_taps |-> num_freqs * num_taps_per_filter,
   dimGrid |-> create_grid(samples_per_antenna, dm_rate, num_antennas),
   dimBlock |-> create_block(num_taps_per_filter, num_freqs)]

(* decimate2048_wrapper with a thread for every tap. *)
decimate2048_wrapper_thread_per_tap(dm_rate, samples_per_antenna, num_taps_per_filter, num_freqs, num_antennas) ==
  [kernel |-> "decimate2048",
   shr_mem_taps |-> num_freqs * num_taps_per_filter,
   dimGrid |-> create_grid(samples_per_antenna, dm_rate, num_antennas),
   dimBlock |-> create_block(num_taps_per_filter, num_freqs)]

(* A wrapper of decimate2048 that allocates one entry of shared memory per *)
(* thread of the block.                                                    *)
decimate2048_wrapper_entry_per_thread(dm_rate, samples_per_antenna, num_taps_per_filter, num_freqs, num_antennas) ==
  [kernel |-> "decimate2048",
   shr_mem_taps |-> num_freqs * (num_taps_per_filter \div 2),
   dimGrid |-> create_grid(samples_per_antenna, dm_rate, num_antennas),
   dimBlock |-> create_block(num_taps_per_filter \div 2, num_freqs)]

decimate2048_wrapper(dm_rate, samples_per_antenna, num_taps_per_filter, num_freqs, num_antennas) ==
  [kernel |-> "decimate2048",
   shr_mem_taps |-> num_freqs * num_taps_per_filter,
   dimGrid |-> create_grid(samples_per_antenna, dm_rate, num_antennas),
   dimBlock |-> create_block(num_taps_per_filter \div 2, num_freqs)]

gridDim(L) == L.dimGrid
blockDim(L) == L.dimBlock
shr_mem_taps(L) == L.shr_mem_taps

Threads(L) == 0 .. (blockDim(L).x * blockDim(L).y - 1)
threadIdx_x(L, t) == t % blockDim(L).x
threadIdx_y(L, t) == t \div blockDim(L).x

NumWarps(L) == (blockDim(L).x * blockDim(L).y + warpSize - 1) \div warpSize
Lanes(L, w) ==
  (w * warpSize) .. Min(w * warpSize + warpSize - 1,
                        blockDim(L).x * blockDim(L).y - 1)

tap_offset(L, t) ==
  IF L.kernel = "decimate1024"
  THEN threadIdx_y(L, t) * blockDim(L).x + threadIdx_x(L, t)
  ELSE threadIdx_y(L, t) * blockDim(L).x + 2 * threadIdx_x(L, t)


----------------------------------------------------------------------------
(* Execution of one barrier interval by a block.  The warps of the block   *)
(* run the interval one after the other, in the order of a schedule, and   *)
(* the lanes of a warp run in lock-step: a thread sees in shared memory    *)
(* what the warps before its own have stored, and the last warp to store   *)
(* to an entry leaves its value there.                                     *)

Schedules == {"asc", "desc"}

(* The function f with every value computed. *)
Explicit(f) == f @@ <<>>

(* The turn of thread t's warp under a schedule. *)
Turn(L, sched, t) ==
  IF sched = "asc" THEN t \div warpSize
  ELSE NumWarps(L) - 1 - (t \div warpSize)

(* The threads whose tap_offset is j. *)
ThreadsAt(L, j) ==
  IF L.kernel = "decimate1024"
  THEN {j} \cap Threads(L)
  ELSE {t \in {ty * blockDim(L).x + ((j - ty * blockDim(L).x) \div 2) :
                  ty \in 0 .. blockDim(L).y - 1} :
          t \in Threads(L) /\ tap_offset(L, t) = j}

(* The last of the threads ws to run. *)
LastOf(L, sched, ws) ==
  IF Cardinality(ws) = 1 THEN CHOOSE t \in ws : TRUE
  ELSE CHOOSE t \in ws : \A u \in ws :
     \/ Turn(L, sched, u) < Turn(L, sched, t)
     \/ (Turn(L, sched, u) = Turn(L, sched, t) /\ u <= t)

(* The tree steps of parallel_reduce and the distance each adds from. *)
TreeSteps == {"tree512", "tree256", "tree128", "tree64"}
TreeH(ph) == IF ph = "tree512" THEN 512
             ELSE IF ph = "tree256" THEN 256
             ELSE IF ph = "tree128" THEN 128
             ELSE 64
TreeNext(ph) == IF ph = "tree512" THEN "tree256"
                ELSE IF ph = "tree256" THEN "tree128"
                ELSE IF ph = "tree128" THEN "tree64"
                ELSE "warp"

(* A tree step that every thread of a wide enough block takes. *)
tree_active_whole_block(L, h, t) == blockDim(L).x >= 2 * h

(* parallel_reduce: the guard of the tree step that adds from h further on. *)
tree_active(L, h, t) ==
  (blockDim(L).x >= 2 * h) /\ (threadIdx_x(L, t) < h)

----------------------------------------------------------------------------
(* The product phase of the two kernels (up to the first __syncthreads()). *)

(* What a thread puts in a sample register: the element of                *)
(* original_samples at an index, or zero without reading the buffer.       *)
Zeroed == [zero |-> TRUE, at |-> 0]

Read(idx) == [zero |-> FALSE, at |-> idx]

Loaded(L, r) ==
  IF r.zero THEN make_cuComplex(0, 0) ELSE original_samples(L, r.at)

(* decimate1024, lines 194-204: where the sample of thread t in block      *)
(* b = <<blockIdx.x, blockIdx.y>> comes from.                              *)
loads_1024(L, b, t) ==
  LET antenna_offset == b[2] * L.samples_per_antenna
      dec_sample_offset == b[1] * L.dm_rate
  IN IF (dec_sample_offset + threadIdx_x(L, t)) >= L.samples_per_antenna
     THEN <<Zeroed>>
     ELSE <<Read(antenna_offset + dec_sample_offset + threadIdx_x(L, t))>>

(* decimate2048 with the second bounds test taken one sample too late. *)
loads_2048_one_out_late(L, b, t) ==
  LET antenna_offset == b[2] * L.samples_per_antenna
      dec_sample_offset == b[1] * L.dm_rate
      final_offset == antenna_offset + dec_sample_offset + 2 * threadIdx_x(L, t)
  IN IF (dec_sample_offset + 2 * threadIdx_x(L, t)) >= L.samples_per_antenna
     THEN <<Zeroed, Zeroed>>
     ELSE IF (dec_sample_offset + 2 * threadIdx_x(L, t)) >= L.samples_per_antenna
     THEN <<Read(final_offset), Zeroed>>
     ELSE <<Read(final_offset), Read(final_offset + 1)>>

(* decimate2048, lines 279-299: where sample_1 and sample_2 of thread t in *)
(* block b come from.                                                      *)
loads_2048(L, b, t) ==
  LET antenna_offset == b[2] * L.samples_per_antenna
      dec_sample_offset == b[1] * L.dm_rate
      final_offset == antenna_offset + dec_sample_offset + 2 * threadIdx_x(L, t)
  IN IF (dec_sample_offset + 2 * threadIdx_x(L, t)) >= L.samples_per_antenna
     THEN <<Zeroed, Zeroed>>
     ELSE IF (dec_sample_offset + 2 * threadIdx_x(L, t)) >= L.samples_per_antenna - 1
     THEN <<Read(final_offset), Zeroed>>
     ELSE <<Read(final_offset), Read(final_offset + 1)>>

(* decimate1024: the sample of thread t in block b. *)
sample_1024(L, b, t) == Loaded(L, loads_1024(L, b, t)[1])

(* decimate2048: <<sample_1, sample_2>> of thread t in block b. *)
samples_2048(L, b, t) ==
  <<Loaded(L, loads_2048(L, b, t)[1]), Loaded(L, loads_2048(L, b, t)[2])>>

(* decimate1024, line 207: what thread t stores in filter_products[tap_offset]. *)
decimate1024_product(L, b, t) ==
  cuCmulf(sample_1024(L, b, t), filter_taps(L, tap_offset(L, t)))

(* decimate2048, lines 302-307: what thread t leaves in entry j, which is  *)
(* its tap_offset (the two products pre-summed) or the entry after it.     *)
decimate2048_product(L, b, t, j) ==
  LET p1 == cuCmulf(samples_2048(L, b, t)[1], filter_taps(L, tap_offset(L, t)))
      p2 == cuCmulf(samples_2048(L, b, t)[2], filter_taps(L, tap_offset(L, t) + 1))
  IN IF j = tap_offset(L, t) THEN cuCaddf(p1, p2) ELSE p2

----------------------------------------------------------------------------
(* Shared memory and registers after a phase.                              *)

(* The threads that store to entry j in phase ph. *)
Writers(L, ph, j) ==
  IF ph = "product"
  THEN (IF L.kernel = "decimate1024" THEN ThreadsAt(L, j)
        ELSE ThreadsAt(L, j) \cup ThreadsAt(L, j - 1))
  ELSE IF ph \in TreeSteps
  THEN {t \in ThreadsAt(L, j) : tree_active(L, TreeH(ph), t)}
  ELSE {}

RECURSIVE Stored(_, _, _, _, _, _, _)
RECURSIVE Seen(_, _, _, _, _, _, _)
RECURSIVE parallel_reduce_step(_, _, _, _, _, _)

(* What thread t stores in entry j in phase ph. *)
Stored(L, b, ph, sched, st, t, j) ==
  IF ph = "product"
  THEN (IF L.kernel = "decimate1024" THEN decimate1024_product(L, b, t)
        ELSE decimate2048_product(L, b, t, j))
  ELSE parallel_reduce_step(L, b, ph, sched, st, t)

(* What thread t reads from entry j in phase ph. *)
Seen(L, b, ph, sched, st, t, j) ==
  LET ws == {u \in Writers(L, ph, j) : Turn(L, sched, u) < Turn(L, sched, t)}
  IN IF ws = {} THEN st.shm[j]
     ELSE Stored(L, b, ph, sched, st, LastOf(L, sched, ws), j)

(* parallel_reduce, lines 94-100 (the first step, which also loads         *)
(* total_sum) and each of the next three tree steps: total_sum of thread t *)
(* at the barrier that ends the step.                                      *)
parallel_reduce_step(L, b, ph, sched, st, t) ==
  LET h == TreeH(ph)
      r0 == IF h = 512 THEN Seen(L, b, ph, sched, st, t, tap_offset(L, t))
            ELSE st.reg[t]
  IN IF tree_active(L, h, t)
     THEN cuCaddf(r0, Seen(L, b, ph, sched, st, t, tap_offset(L, t) + h))
     ELSE r0

(* The block after the phase ph run from st under schedule sched. *)
AfterPhase(L, b, ph, sched, st) ==
  IF ph \in TreeSteps /\ TreeH(ph) # 512 /\ blockDim(L).x < 2 * TreeH(ph)
  THEN st
  ELSE IF ph \in TreeSteps
  THEN LET reg == Explicit([t \in DOMAIN st.reg |->
                              parallel_reduce_step(L, b, ph, sched, st, t)])
       IN [shm |-> [j \in DOMAIN st.shm |->
                      LET ws == Writers(L, ph, j)
                      IN IF ws = {} THEN st.shm[j]
                         ELSE reg[LastOf(L, sched, ws)]],
           reg |-> reg]
  ELSE [shm |-> [j \in DOMAIN st.shm |->
                   LET ws == Writers(L, ph, j)
                   IN IF ws = {} THEN st.shm[j]
                      ELSE Stored(L, b, ph, sched, st, LastOf(L, sched, ws), j)],
        reg |-> st.reg]

----------------------------------------------------------------------------
(* The warp-synchronous end of parallel_reduce (lines 128-140).            *)

(* Whether thread t exists and takes the branch filter_tap_num < 32. *)
in_final_warp(L, t) == t \in Threads(L) /\ threadIdx_x(L, t) < 32

(* Line 131: the intermediate sum of the second warp. *)
warp_fetch(L, st, t) ==
  IF blockDim(L).x >= 64
  THEN cuCaddf(st.reg[t], st.shm[tap_offset(L, t) + 32])
  ELSE st.reg[t]

(* total_sum of thread t after the iterations of the loop down to offset.  *)
(* __shfl_down(var, offset) returns the value of lane + offset, the lane's *)
(* own value past the end of the warp, and an undefined value (undef) when *)
(* that lane takes no part in the shuffle.                                 *)
RECURSIVE shfl_down_sum(_, _, _, _, _)
shfl_down_sum(L, st, undef, offset, t) ==
  LET before(u) == IF offset = warpSize \div 2 THEN warp_fetch(L, st, u)
                   ELSE shfl_down_sum(L, st, undef, offset * 2, u)
      mine == before(t)
      shuffled == IF (t % warpSize) + offset >= warpSize THEN mine
                  ELSE IF in_final_warp(L, t + offset) THEN before(t + offset)
                  ELSE undef
  IN cuCaddf(mine, shuffled)

parallel_reduce_warp(L, st, undef, t) ==
  IF in_final_warp(L, t) THEN shfl_down_sum(L, st, undef, 1, t) ELSE st.reg[t]

(* An offset whose frequency stride leaves out the number of antennas. *)
total_offset_one_antenna(L, b, t) ==
  LET antenna_offset == (b[2] * L.samples_per_antenna) \div L.dm_rate
      freq_offset == threadIdx_y(L, t) * gridDim(L).x
  IN freq_offset + antenna_offset + b[1]

(* Lines 218-225 / 316-323: the offset thread t writes its result to. *)
total_offset(L, b, t) ==
  LET antenna_offset == (b[2] * L.samples_per_antenna) \div L.dm_rate
      total_antennas == gridDim(L).y
      freq_offset == threadIdx_y(L, t) * gridDim(L).x * total_antennas
  IN freq_offset + antenna_offset + b[1]

----------------------------------------------------------------------------
(* Kernel selection (DSPCore::call_decimate).                              *)

(* A selection that sends a product equal to a limit to the next branch. *)
call_decimate_kernel_at_limit(num_taps_per_filter, num_freqs) ==
  IF num_taps_per_filter * num_freqs >= 2 * maxThreadsPerBlock
  THEN "none"
  ELSE IF num_taps_per_filter * num_freqs >= maxThreadsPerBlock
  THEN "decimate2048"
  ELSE "decimate1024"

(* The uint32 product cannot wrap for the tap and frequency counts of the   *)
(* model (at most 4096 taps and a handful of frequencies).                 *)
call_decimate_kernel(num_taps_per_filter, num_freqs) ==
  IF num_taps_per_filter * num_freqs > 2 * maxThreadsPerBlock
  THEN "none"
  ELSE IF num_taps_per_filter * num_freqs > maxThreadsPerBlock
  THEN "decimate2048"
  ELSE "decimate1024"

----------------------------------------------------------------------------
(* The launches of the kernel specification.                               *)

TapCounts == {Pow2(e) : e \in 2 .. 11}

DataPatterns == {<<"ones", "ones">>, <<"ramp", "rows">>}

(* The decimation rates tried with N taps: an odd one and half the taps. *)
DmRate(N, r) == IF r = 1 THEN 3 ELSE N \div 2

(* How the hardware behaves during a launch: the order the warps of a      *)
(* block run in, and what a shuffle from a lane that takes no part gives.  *)
Hardware == {[sched |-> "asc", undef |-> <<0, 0>>],
             [sched |-> "desc", undef |-> <<5, 0>>]}

(* DSPCore::call_decimate: the kernel launched, with its arguments. *)
call_decimate(dm_rate, samples_per_antenna, num_taps_per_filter, num_freqs, num_antennas) ==
  IF call_decimate_kernel(num_taps_per_filter, num_freqs) = "none"
  THEN [kernel |-> "none"]
  ELSE (IF call_decimate_kernel(num_taps_per_filter, num_freqs) = "decimate2048"
        THEN decimate2048_wrapper(dm_rate, samples_per_antenna,
                                  num_taps_per_filter, num_freqs, num_antennas)
        ELSE decimate1024_wrapper(dm_rate, samples_per_antenna,
                                  num_taps_per_filter, num_freqs, num_antennas))
       @@ [dm_rate |-> dm_rate, samples_per_antenna |-> samples_per_antenna,
           num_taps_per_filter |-> num_taps_per_filter,
           num_freqs |-> num_freqs, num_antennas |-> num_antennas]

Launches ==
  {call_decimate(DmRate(N, r), DmRate(N, r) * OutSamples, N, F, NumAntennas)
     @@ [spat |-> p[1], tpat |-> p[2], hw |-> hw] :
     N \in TapCounts, F \in 1 .. MaxFreqs, r \in {1, 2},
     p \in DataPatterns, hw \in Hardware}

Blocks(L) == (0 .. gridDim(L).x - 1) \X (0 .. gridDim(L).y - 1)
OutSlots(L) == 0 .. (L.num_freqs * gridDim(L).x * gridDim(L).y - 1)

(* What memory holds before the program writes it. *)
Garbage == <<-7, -7>>

NoBlock == <<-1, -1>>

(* The objects of the host side. *)
Seqs == 1 .. NumSequences

Sockets == {"ack_socket", "timing_socket"}

Op(o, a) == [op |-> o, arg |-> a]

(* gpuErrchk(call) where the call reports an error: the end of the host    *)
(* process.                                                                *)
gpuErrchk == "exited"

NoOp == Op("none", "none")

(* A teardown that leaves the pinned host buffer alone. *)
Frees_without_host_output ==
  <<"rf_samples_d", "first_stage_bp_filters_d", "second_stage_filters_d",
    "third_stage_filters_d", "first_stage_output_d", "second_stage_output_d",
    "third_stage_output_d",
    "initial_start", "kernel_start", "stop", "stream">>

(* What clear_device_and_destroy frees or destroys, in its order: the      *)
(* device buffers, the pinned host buffer, the events and the stream.      *)
Frees ==
  <<"rf_samples_d", "first_stage_bp_filters_d", "second_stage_filters_d",
    "third_stage_filters_d", "first_stage_output_d", "second_stage_output_d",
    "third_stage_output_d", "host_output_h",
    "initial_start", "kernel_start", "stop", "stream">>

Resources == {Frees[k] : k \in DOMAIN Frees}

(* What the constructor creates, in its order. *)
Created == <<"stream", "initial_start", "kernel_start", "stop">>

(* A DSPCore that has not been constructed.  held are the resources it has *)
(* acquired and not released, freed counts the releases of each, teardowns *)
(* the calls of clear_device_and_destroy, removals those of remove_shr_mem.*)
NoCore ==
  [life |-> "unborn", sequence_num |-> 0,
   ack_socket |-> "none", timing_socket |-> "none",
   held |-> {}, recorded |-> {}, shr_mem |-> "none", removals |-> 0,
   freed |-> [r \in Resources |-> 0], teardowns |-> 0,
   total_process_timing_ms |-> 0, decimate_kernel_timing_ms |-> 0]

(* No sequence has been submitted. *)
NoSequences ==
  /\ main = [seq |-> 1, step |-> 1, num_freqs |-> 1, taps |-> <<16, 16, 16>>]
  /\ dsp = [i \in Seqs |-> NoCore]
  /\ stream = [i \in Seqs |-> <<>>]
  /\ running = [i \in Seqs |-> NoOp]
  /\ began = [i \in Seqs |-> <<>>]
  /\ decimate_calls = [i \in Seqs |-> <<>>]
  /\ start_imc = [i \in Seqs |-> 0]
  /\ start_pp = [i \in Seqs |-> 0]
  /\ in_send = [s \in Sockets |-> {}]
  /\ raced = [s \in Sockets |-> {}]
  /\ acks = <<>>
  /\ timings = <<>>
  /\ kerneltimes = <<>>
  /\ shared_memory = [i \in Seqs |-> TRUE]
  /\ process = "running"
  /\ copied = <<>>

InitKernel ==
  /\ NoSequences
  /\ launch \in {L \in Launches : L.kernel # "none"}
  /\ kpc = "idle"
  /\ todo = Blocks(launch)
  /\ blockIdx = NoBlock
  /\ filter_products = [i \in 0 .. shr_mem_taps(launch) - 1 |-> Garbage]
  /\ total_sum = [t \in Threads(launch) |-> Garbage]
  /\ reduce_in = filter_products
  /\ decimated_samples = [o \in OutSlots(launch) |-> Garbage]
  /\ writes = [o \in OutSlots(launch) |-> 0]

(* The blocks of the grid share nothing but the output buffer; the model   *)
(* runs them one after the other, in the order of their number.            *)
BlockNum(L, b) == b[2] * gridDim(L).x + b[1]

(* The scheduler starts a block of the grid. *)
BlockStart ==
  /\ kpc = "idle"
  /\ todo # {}
  /\ LET b == CHOOSE c \in todo : \A d \in todo : BlockNum(launch, c) <= BlockNum(launch, d)
     IN /\ blockIdx' = b
        /\ todo' = todo \ {b}
  /\ kpc' = "product"
  /\ filter_products' = [i \in DOMAIN filter_products |-> Garbage]
  /\ total_sum' = [t \in DOMAIN total_sum |-> Garbage]
  /\ UNCHANGED <<launch, reduce_in, decimated_samples, writes>>
  /\ UNCHANGED pvars

BlockState == [shm |-> filter_products, reg |-> total_sum]

(* A parallel_reduce whose barriers are inside the branches of its tree    *)
(* steps: only the threads that take a step reach its barrier.             *)
syncthreads_in_branch(L, ph, t) ==
  ph \notin TreeSteps \/ tree_active(L, TreeH(ph), t)

(* Whether thread t executes the __syncthreads() that ends interval ph:    *)
(* the one after the products (lines 210, 308) and the four of             *)
(* parallel_reduce (lines 102, 110, 118, 126) are outside every branch.    *)
syncthreads(L, ph, t) == TRUE

(* The barrier that ends the interval lets the block through once every    *)
(* thread of the block has executed it.                                    *)
BarrierPassed ==
  {t \in Threads(launch) : syncthreads(launch, kpc, t)} = Threads(launch)

(* decimate1024 / decimate2048 up to the barrier before parallel_reduce. *)
Products ==
  /\ kpc = "product"
  /\ BarrierPassed
  /\ LET st == AfterPhase(launch, blockIdx, "product", launch.hw.sched, BlockState)
     IN /\ filter_products' = st.shm
        /\ total_sum' = st.reg
        /\ reduce_in' = st.shm
  /\ kpc' = "tree512"
  /\ UNCHANGED <<launch, todo, blockIdx, decimated_samples, writes>>
  /\ UNCHANGED pvars

(* One tree step of parallel_reduce, up to its barrier. *)
TreeStep ==
  /\ kpc \in TreeSteps
  /\ BarrierPassed
  /\ LET st == AfterPhase(launch, blockIdx, kpc, launch.hw.sched, BlockState)
     IN /\ filter_products' = st.shm
        /\ total_sum' = st.reg
  /\ kpc' = TreeNext(kpc)
  /\ UNCHANGED <<launch, todo, blockIdx, reduce_in, decimated_samples, writes>>
  /\ UNCHANGED pvars

(* The warp-synchronous end of parallel_reduce. *)
FinalWarp ==
  /\ kpc = "warp"
  /\ total_sum' = [t \in DOMAIN total_sum |->
                     parallel_reduce_warp(launch, BlockState, launch.hw.undef, t)]
  /\ kpc' = "store"
  /\ UNCHANGED <<launch, todo, blockIdx, filter_products, reduce_in,
                 decimated_samples, writes>>
  /\ UNCHANGED pvars

(* The threads with threadIdx.x == 0 write the output sample. *)
Store ==
  /\ kpc = "store"
  /\ LET writers == {ty * blockDim(launch).x : ty \in 0 .. blockDim(launch).y - 1}
         hit(o) == {t \in writers : total_offset(launch, blockIdx, t) = o}
     IN /\ decimated_samples' =
             [o \in DOMAIN decimated_samples |->
                IF hit(o) # {} THEN total_sum[CHOOSE t \in hit(o) : TRUE]
                ELSE decimated_samples[o]]
        /\ writes' = [o \in DOMAIN writes |-> writes[o] + Cardinality(hit(o))]
  /\ kpc' = IF todo = {} THEN "done" ELSE "idle"
  /\ UNCHANGED <<launch, todo, blockIdx, filter_products, total_sum, reduce_in>>
  /\ UNCHANGED pvars

NextKernel == BlockStart \/ Products \/ TreeStep \/ FinalWarp \/ Store

SpecKernel == InitKernel /\ [][NextKernel]_vars

----------------------------------------------------------------------------
(* The decimation the kernels are to compute.                              *)

(* out[f, a, k]: the sum over the taps t of in[a, k*D + t] * tap[f, t],    *)
(* a term whose sample lies past the end of the antenna counting as zero.  *)
Decimated(L, f, a, k) ==
  SumOver([t \in 0 .. L.num_taps_per_filter - 1 |->
             IF k * L.dm_rate + t >= L.samples_per_antenna
             THEN make_cuComplex(0, 0)
             ELSE cuCmulf(original_samples(L, a * L.samples_per_antenna
                                              + k * L.dm_rate + t),
                          filter_taps(L, f * L.num_taps_per_filter + t))],
          0, L.num_taps_per_filter)

OutputIsDecimated(L) ==
  LET K == L.samples_per_antenna \div L.dm_rate
  IN \A f \in 0 .. L.num_freqs - 1 : \A a \in 0 .. L.num_antennas - 1 :
       \A k \in 0 .. K - 1 :
          decimated_samples[f * L.num_antennas * K + a * K + k]
             = Decimated(L, f, a, k)

(* C1: once decimate1024 has finished, every output slot                   *)
(* f*A*(S/D) + a*(S/D) + k holds the sum over the N taps of                *)
(* in[a*S + k*D + t] * tap[f*N + t] (zero where k*D + t >= S), for every   *)
(* power-of-two tap count N >= 4.                                          *)
C1_SmallKernelDecimates ==
  (kpc = "done" /\ launch.kernel = "decimate1024") => OutputIsDecimated(launch)

(* C2: once decimate2048 has finished, every output slot holds the same    *)
(* sum over all N taps of its frequency as the small variant's reference.  *)
C2_LargeKernelDecimates ==
  (kpc = "done" /\ launch.kernel = "decimate2048") => OutputIsDecimated(launch)

(* C3: parallel_reduce called by a block of width N returns, to the thread *)
(* with threadIdx.x == 0 of every row ty, the sum of the N shared-memory   *)
(* entries of row ty as the call found them.                               *)
C3_ReduceIsRowSum ==
  (kpc = "store" /\ launch.kernel = "decimate1024") =>
     \A ty \in 0 .. blockDim(launch).y - 1 :
        total_sum[ty * blockDim(launch).x]
           = SumOver(reduce_in, ty * blockDim(launch).x,
                     (ty + 1) * blockDim(launch).x)

(* The same two statements for the tap counts of a full warp and more. *)
SmallKernelDecimatesFrom32 ==
  (kpc = "done" /\ launch.kernel = "decimate1024"
     /\ launch.num_taps_per_filter >= warpSize) => OutputIsDecimated(launch)

ReduceIsRowSumFrom32 ==
  (kpc = "store" /\ launch.kernel = "decimate1024"
     /\ launch.num_taps_per_filter >= warpSize) =>
     \A ty \in 0 .. blockDim(launch).y - 1 :
        total_sum[ty * blockDim(launch).x]
           = SumOver(reduce_in, ty * blockDim(launch).x,
                     (ty + 1) * blockDim(launch).x)

----------------------------------------------------------------------------
(* The sequences: one DSPCore per sequence, its stream, its two callbacks  *)
(* and their host threads.                                                 *)

(* No kernel launch is modelled thread by thread in this part. *)
NoLaunch ==
  /\ launch = [kernel |-> "none"]
  /\ kpc = "off"
  /\ todo = {}
  /\ blockIdx = NoBlock
  /\ filter_products = <<>>
  /\ total_sum = <<>>
  /\ reduce_in = <<>>
  /\ decimated_samples = <<>>
  /\ writes = <<>>

(* The tap counts of the first stage filters; the later stages are short. *)
FirstStageTaps == {Pow2(e) : e \in 9 .. 11}

LaterStageTaps == Pow2(4)

(* The receive frequencies are chosen and the filters designed once,      *)
(* before the first sequence.                                              *)
InitPipe ==
  /\ main \in {[seq |-> 1, step |-> 1, num_freqs |-> F,
                taps |-> <<N, LaterStageTaps, LaterStageTaps>>] :
                  F \in 1 .. MaxFreqs, N \in FirstStageTaps}
  /\ dsp = [i \in Seqs |-> NoCore]
  /\ stream = [i \in Seqs |-> <<>>]
  /\ running = [i \in Seqs |-> NoOp]
  /\ began = [i \in Seqs |-> <<>>]
  /\ decimate_calls = [i \in Seqs |-> <<>>]
  /\ start_imc = [i \in Seqs |-> 0]
  /\ start_pp = [i \in Seqs |-> 0]
  /\ in_send = [s \in Sockets |-> {}]
  /\ raced = [s \in Sockets |-> {}]
  /\ acks = <<>>
  /\ timings = <<>>
  /\ kerneltimes = <<>>
  /\ shared_memory = [i \in Seqs |-> TRUE]
  /\ process = "running"
  /\ copied = <<>>
  /\ NoLaunch

(* The stages of a sequence, as call_decimate's output_msg names them. *)
StageNames == <<"first_stage", "second_stage", "third_stage">>

Stages == DOMAIN StageNames

Kernels == {"decimate1024", "decimate2048"}

(* What the host thread does for one sequence, in this order: it creates   *)
(* the DSPCore, copies the samples and attaches the copy callback, copies  *)
(* the filters and allocates the stage outputs, runs the three stages,     *)
(* copies the output back, and attaches the postprocessing callback.  The  *)
(* other threads meet the host thread only at the tail of the stream, so   *)
(* the calls of one step are taken together.                               *)
DriverSteps ==
  <<"create", "copy_samples", "copy_filters",
    "first_stage", "second_stage", "third_stage",
    "copy_output", "finalise">>

At(i, step) ==
  /\ main.seq = i
  /\ DriverSteps[main.step] = step

(* The host thread goes on to its next step, or to the next sequence. *)
Proceed ==
  IF main.step = Len(DriverSteps)
  THEN [main EXCEPT !.seq = @ + 1, !.step = 1]
  ELSE [main EXCEPT !.step = @ + 1]

(* ---- the methods the host thread calls: each takes the DSPCore and its  *)
(* stream, c = [dsp, stream], and gives them back as the call leaves them. *)

Core(i) == [dsp |-> dsp[i], stream |-> stream[i]]

Memcpy(buffer) == Op("cudaMemcpyAsync", buffer)

Record(event) == Op("cudaEventRecord", event)

Callback(f) == Op("callback", f)

(* cudaMalloc or cudaHostAlloc of a buffer, then a copy on the stream. *)
AllocateAndCopy(c, buffer) ==
  [dsp |-> [c.dsp EXCEPT !.held = @ \cup {buffer}],
   stream |-> Append(c.stream, Memcpy(buffer))]

(* cudaMalloc of a buffer. *)
Allocate(c, buffer) == [c EXCEPT !.dsp.held = @ \cup {buffer}]

(* DSPCore::DSPCore(ack_s, timing_s, sq_num, shr_mem_name): the stream and *)
(* the events are created, initial_start goes on the stream, and the       *)
(* shared memory of the sequence is opened.  The constructor looks at no   *)
(* result of open_shr_mem: where the region does not exist it returns with *)
(* a handler that maps nothing.                                            *)
DSPCore_new(ack_s, timing_s, sq_num, shr_mem_name) ==
  [dsp |-> [NoCore EXCEPT
              !.life = "live", !.sequence_num = sq_num,
              !.ack_socket = ack_s, !.timing_socket = timing_s,
              !.held = {Created[k] : k \in DOMAIN Created},
              !.shr_mem = IF shared_memory[shr_mem_name] THEN "open"
                          ELSE "unmapped"],
   stream |-> <<Record("initial_start")>>]

allocate_and_copy_rf_samples(c) == AllocateAndCopy(c, "rf_samples_d")

allocate_and_copy_first_stage_filters(c) ==
  AllocateAndCopy(c, "first_stage_bp_filters_d")

allocate_and_copy_second_stage_filter(c) ==
  AllocateAndCopy(c, "second_stage_filters_d")

allocate_and_copy_third_stage_filter(c) ==
  AllocateAndCopy(c, "third_stage_filters_d")

allocate_first_stage_output(c) == Allocate(c, "first_stage_output_d")

allocate_second_stage_output(c) == Allocate(c, "second_stage_output_d")

allocate_third_stage_output(c) == Allocate(c, "third_stage_output_d")

allocate_and_copy_host_output(c) == AllocateAndCopy(c, "host_output_h")

(* cudaStreamAddCallback(stream, f, dp, 0). *)
cudaStreamAddCallback(c, f) == [c EXCEPT !.stream = Append(@, Callback(f))]

(* DSPCore::call_decimate: the kernel it selects goes on the stream; over  *)
(* twice maxThreadsPerBlock nothing does.  No launch of the model has an   *)
(* invalid configuration, so cudaPeekAtLastError reports no error.         *)
DSPCore_call_decimate(c, num_taps_per_filter, num_freqs, output_msg) ==
  LET kernel == call_decimate_kernel(num_taps_per_filter, num_freqs)
  IN IF kernel = "none" THEN c
     ELSE [c EXCEPT !.stream = Append(@, Op(kernel, output_msg))]

(* ---- the steps of the host thread ---- *)

(* The host thread leaves the DSPCore of sequence i and its stream as c. *)
HostStep(i, step, c) ==
  /\ process = "running"
  /\ At(i, step)
  /\ main' = Proceed
  /\ dsp' = [dsp EXCEPT ![i] = c.dsp]
  /\ stream' = [stream EXCEPT ![i] = c.stream]
  /\ UNCHANGED <<running, began, start_imc, start_pp,
                 in_send, raced, acks, timings, kvars,
                 kerneltimes, shared_memory, process, copied>>

CreateCore(i) ==
  /\ HostStep(i, "create", DSPCore_new("ack_socket", "timing_socket", i, i))
  /\ UNCHANGED decimate_calls

CopySamples(i) ==
  /\ HostStep(i, "copy_samples",
              cudaStreamAddCallback(allocate_and_copy_rf_samples(Core(i)),
                                    "initial_memcpy_callback"))
  /\ UNCHANGED decimate_calls

(* The object and its stream before the first, and after each, of the six  *)
(* allocations of the filters and the stage outputs.                       *)
FilterAllocations(c) ==
  LET c1 == allocate_and_copy_first_stage_filters(c)
      c2 == allocate_and_copy_second_stage_filter(c1)
      c3 == allocate_and_copy_third_stage_filter(c2)
      c4 == allocate_first_stage_output(c3)
      c5 == allocate_second_stage_output(c4)
      c6 == allocate_third_stage_output(c5)
  IN <<c, c1, c2, c3, c4, c5, c6>>

CopyFilters(i) ==
  /\ HostStep(i, "copy_filters", FilterAllocations(Core(i))[7])
  /\ UNCHANGED decimate_calls

(* ---- the accessors of the device pointers: each returns a member ---- *)

get_rf_samples_p == "rf_samples_d"

get_first_stage_bp_filters_p == "first_stage_bp_filters_d"

get_second_stage_filter_p == "second_stage_filters_d"

get_third_stage_filter_p == "third_stage_filters_d"

get_first_stage_output_p == "first_stage_output_d"

get_second_stage_output_p == "second_stage_filters_d"

get_third_stage_output_p == "third_stage_filters_d"

(* The pointers the host thread hands to call_decimate for each stage: the *)
(* samples it reads, the buffer it writes and its filter taps.             *)
StageSamples ==
  <<get_rf_samples_p, get_first_stage_output_p, get_second_stage_output_p>>

StageOutput ==
  <<get_first_stage_output_p, get_second_stage_output_p,
    get_third_stage_output_p>>

StageTaps ==
  <<get_first_stage_bp_filters_p, get_second_stage_filter_p,
    get_third_stage_filter_p>>

RunStage(i, s) ==
  /\ HostStep(i, StageNames[s],
              DSPCore_call_decimate(Core(i), main.taps[s], main.num_freqs,
                                    StageNames[s]))
  /\ decimate_calls' =
       [decimate_calls EXCEPT ![i] =
          Append(@, [output_msg |-> StageNames[s],
                     original_samples |-> StageSamples[s],
                     decimated_samples |-> StageOutput[s],
                     filter_taps |-> StageTaps[s],
                     num_taps_per_filter |-> main.taps[s],
                     num_freqs |-> main.num_freqs,
                     kernel |-> call_decimate_kernel(main.taps[s],
                                                     main.num_freqs)])]

CopyOutput(i) ==
  /\ HostStep(i, "copy_output", allocate_and_copy_host_output(Core(i)))
  /\ UNCHANGED decimate_calls

AttachPostprocessing(i) ==
  /\ HostStep(i, "finalise",
              cudaStreamAddCallback(Core(i), "cuda_postprocessing_callback"))
  /\ UNCHANGED decimate_calls

(* Work appended to a stream runs after everything appended before it. *)
Enqueue(i, o) == [stream EXCEPT ![i] = Append(@, o)]

(* ---- the stream of a DSPCore ---- *)

(* The copies of the samples and the kernels are followed from their      *)
(* beginning to their completion.                                          *)
Lasting(o) ==
  \/ o.op \in Kernels
  \/ o \in {Memcpy("rf_samples_d"), Memcpy("host_output_h")}

(* The stream takes up the copy or kernel at its head. *)
StreamBegin(i) ==
  /\ process = "running"
  /\ running[i] = NoOp
  /\ stream[i] # <<>>
  /\ Lasting(Head(stream[i]))
  /\ running' = [running EXCEPT ![i] = Head(stream[i])]
  /\ stream' = [stream EXCEPT ![i] = Tail(@)]
  /\ began' = [began EXCEPT ![i] = Append(@, Head(stream[i]))]
  /\ UNCHANGED <<main, dsp, decimate_calls, start_imc, start_pp,
                 in_send, raced, acks, timings, kvars,
                 kerneltimes, shared_memory, process, copied>>

(* The copy or kernel completes. *)
StreamEnd(i) ==
  /\ process = "running"
  /\ Lasting(running[i])
  /\ running' = [running EXCEPT ![i] = NoOp]
  /\ copied' = IF running[i] = Memcpy("rf_samples_d")
               THEN Append(copied, dsp[i].sequence_num)
               ELSE copied
  /\ UNCHANGED <<main, dsp, stream, began, decimate_calls, start_imc, start_pp,
                 in_send, raced, acks, timings, kvars,
                 kerneltimes, shared_memory, process>>

(* The stream executes the event record or the copy of a filter bank at    *)
(* its head; nothing looks at these while they are in progress.            *)
StreamStep(i) ==
  /\ process = "running"
  /\ running[i] = NoOp
  /\ stream[i] # <<>>
  /\ Head(stream[i]).op \in {"cudaEventRecord", "cudaMemcpyAsync"}
  /\ ~Lasting(Head(stream[i]))
  /\ stream' = [stream EXCEPT ![i] = Tail(@)]
  /\ began' = [began EXCEPT ![i] = Append(@, Head(stream[i]))]
  /\ dsp' = IF Head(stream[i]).op = "cudaEventRecord"
            THEN [dsp EXCEPT ![i].recorded = @ \cup {Head(stream[i]).arg}]
            ELSE dsp
  /\ UNCHANGED <<main, running, decimate_calls, start_imc, start_pp,
                 in_send, raced, acks, timings, kvars,
                 kerneltimes, shared_memory, process, copied>>

(* ---- the callback after the copy of the RF samples, and its thread ---- *)

(* A handler that starts the kernel timing before it sends the ack. *)
handler_timing_first == <<"start_decimate_timing", "send_ack">>

initial_memcpy_callback_handler == <<"send_ack", "start_decimate_timing">>

ImcAt(i, call) ==
  /\ start_imc[i] \in DOMAIN initial_memcpy_callback_handler
  /\ initial_memcpy_callback_handler[start_imc[i]] = call

(* A callback that detaches start_imc returns once the thread is started. *)
start_imc_detached(i) == start_imc[i] >= 1

(* start_imc.join() has returned: the handler has made all its calls. *)
start_imc_joined(i) == start_imc[i] > Len(initial_memcpy_callback_handler)

(* The runtime calls DSPCore::initial_memcpy_callback, which starts thread *)
(* start_imc; the stream waits for the callback to return.                 *)
initial_memcpy_callback(i) ==
  /\ process = "running"
  /\ running[i] = NoOp
  /\ stream[i] # <<>>
  /\ Head(stream[i]) = Callback("initial_memcpy_callback")
  /\ running' = [running EXCEPT ![i] = Head(stream[i])]
  /\ stream' = [stream EXCEPT ![i] = Tail(@)]
  /\ began' = [began EXCEPT ![i] = Append(@, Head(stream[i]))]
  /\ start_imc' = [start_imc EXCEPT ![i] = 1]
  /\ UNCHANGED <<main, dsp, decimate_calls, start_pp,
                 in_send, raced, acks, timings, kvars,
                 kerneltimes, shared_memory, process, copied>>

(* The callback returns. *)
initial_memcpy_callback_return(i) ==
  /\ process = "running"
  /\ running[i] = Callback("initial_memcpy_callback")
  /\ start_imc_joined(i)
  /\ running' = [running EXCEPT ![i] = NoOp]
  /\ UNCHANGED <<main, dsp, stream, began, decimate_calls, start_imc, start_pp,
                 in_send, raced, acks, timings, kvars,
                 kerneltimes, shared_memory, process, copied>>

(* ---- socket->send(msg) ---- *)

(* A thread enters send() on a socket; no lock guards the socket. *)
EnterSend(sock, i) ==
  /\ in_send' = [in_send EXCEPT ![sock] = @ \cup {i}]
  /\ raced' = IF in_send[sock] = {} THEN raced
              ELSE [raced EXCEPT ![sock] = @ \cup in_send[sock] \cup {i}]

(* What the channel receives for the message of thread i.  A send() that   *)
(* ran alone delivers the message.  Two send() calls on one socket at the  *)
(* same time are a data race inside the socket: the message arrives, is    *)
(* lost, or is replaced by a message of the other call.                    *)
Delivered(sock, i) ==
  IF i \in raced[sock]
  THEN {<<>>} \cup {<<dsp[j].sequence_num>> : j \in raced[sock]}
  ELSE {<<dsp[i].sequence_num>>}

LeaveSend(sock, i) ==
  /\ in_send' = [in_send EXCEPT ![sock] = @ \ {i}]
  /\ raced' = IF in_send[sock] \ {i} = {} THEN [raced EXCEPT ![sock] = {}]
              ELSE raced

send_ack_enter(i) ==
  /\ process = "running"
  /\ ImcAt(i, "send_ack")
  /\ i \notin in_send[dsp[i].ack_socket]
  /\ EnterSend(dsp[i].ack_socket, i)
  /\ UNCHANGED <<main, dsp, stream, running, began, decimate_calls,
                 start_imc, start_pp, acks, timings, kvars,
                 kerneltimes, shared_memory, process, copied>>

send_ack_return(i) ==
  /\ process = "running"
  /\ ImcAt(i, "send_ack")
  /\ i \in in_send[dsp[i].ack_socket]
  /\ \E m \in Delivered(dsp[i].ack_socket, i) : acks' = acks \o m
  /\ LeaveSend(dsp[i].ack_socket, i)
  /\ start_imc' = [start_imc EXCEPT ![i] = @ + 1]
  /\ UNCHANGED <<main, dsp, stream, running, began, decimate_calls,
                 start_pp, timings, kvars,
                 kerneltimes, shared_memory, process, copied>>

(* cudaEventRecord(kernel_start, stream), by thread start_imc. *)
start_decimate_timing(i) ==
  /\ process = "running"
  /\ ImcAt(i, "start_decimate_timing")
  /\ stream' = Enqueue(i, Record("kernel_start"))
  /\ start_imc' = [start_imc EXCEPT ![i] = @ + 1]
  /\ UNCHANGED <<main, dsp, running, began, decimate_calls, start_pp,
                 in_send, raced, acks, timings, kvars,
                 kerneltimes, shared_memory, process, copied>>

(* ---- the callback at the end of the stream, and its thread ---- *)

(* A postprocess that deletes the instance before it tears it down. *)
postprocess_deletes_first ==
  <<"stop_timing", "send_timing", "delete", "clear_device_and_destroy">>

(* A postprocess that tears the instance down before it reports. *)
postprocess_clears_first ==
  <<"stop_timing", "clear_device_and_destroy", "send_timing", "delete">>

(* A postprocess that deletes the instance and then goes on using it. *)
postprocess_deletes_at_once ==
  <<"delete", "stop_timing", "send_timing", "clear_device_and_destroy">>

postprocess ==
  <<"stop_timing", "send_timing", "clear_device_and_destroy", "delete">>

PpAt(i, call) ==
  /\ start_pp[i] \in DOMAIN postprocess
  /\ postprocess[start_pp[i]] = call

(* The runtime calls DSPCore::cuda_postprocessing_callback, which starts   *)
(* thread start_pp, detaches it and returns.                               *)
cuda_postprocessing_callback(i) ==
  /\ process = "running"
  /\ running[i] = NoOp
  /\ stream[i] # <<>>
  /\ Head(stream[i]) = Callback("cuda_postprocessing_callback")
  /\ stream' = [stream EXCEPT ![i] = Tail(@)]
  /\ began' = [began EXCEPT ![i] = Append(@, Head(stream[i]))]
  /\ start_pp' = [start_pp EXCEPT ![i] = 1]
  /\ UNCHANGED <<main, dsp, running, decimate_calls, start_imc,
                 in_send, raced, acks, timings, kvars,
                 kerneltimes, shared_memory, process, copied>>

Queued(i, o) ==
  \/ \E k \in DOMAIN stream[i] : stream[i][k] = o
  \/ running[i] = o

(* stop_timing: cudaEventRecord(stop, stream) ... *)
stop_timing_record(i) ==
  /\ process = "running"
  /\ PpAt(i, "stop_timing")
  /\ ~Queued(i, Record("stop"))
  /\ "stop" \notin dsp[i].recorded
  /\ stream' = Enqueue(i, Record("stop"))
  /\ UNCHANGED <<main, dsp, running, began, decimate_calls, start_imc,
                 start_pp, in_send, raced, acks, timings, kvars,
                 kerneltimes, shared_memory, process, copied>>

(* cudaEventElapsedTime(&ms, start, end): the time the stream spent       *)
(* between the two events, counted in the copies and kernels it ran.       *)
cudaEventElapsedTime(i, start, end) ==
  LET at(e) == CHOOSE k \in DOMAIN began[i] : began[i][k] = Record(e)
  IN Cardinality({k \in DOMAIN began[i] :
                    at(start) < k /\ k < at(end) /\ Lasting(began[i][k])})

(* ... cudaEventSynchronize(stop) and the two elapsed times. *)
stop_timing_synchronize(i) ==
  /\ process = "running"
  /\ PpAt(i, "stop_timing")
  /\ "stop" \in dsp[i].recorded
  /\ IF {"initial_start", "kernel_start"} \subseteq dsp[i].recorded
     THEN /\ dsp' = [dsp EXCEPT
                       ![i].total_process_timing_ms =
                          cudaEventElapsedTime(i, "initial_start", "stop"),
                       ![i].decimate_kernel_timing_ms =
                          cudaEventElapsedTime(i, "kernel_start", "stop")]
          /\ start_pp' = [start_pp EXCEPT ![i] = @ + 1]
          /\ UNCHANGED process
     ELSE /\ process' = gpuErrchk
          /\ UNCHANGED <<dsp, start_pp>>
  /\ UNCHANGED <<main, stream, running, began, decimate_calls, start_imc,
                 in_send, raced, acks, timings, kvars,
                 kerneltimes, shared_memory, copied>>

send_timing_enter(i) ==
  /\ process = "running"
  /\ PpAt(i, "send_timing")
  /\ i \notin in_send[dsp[i].timing_socket]
  /\ EnterSend(dsp[i].timing_socket, i)
  /\ UNCHANGED <<main, dsp, stream, running, began, decimate_calls,
                 start_imc, start_pp, acks, timings, kvars,
                 kerneltimes, shared_memory, process, copied>>

send_timing_return(i) ==
  /\ process = "running"
  /\ PpAt(i, "send_timing")
  /\ i \in in_send[dsp[i].timing_socket]
  /\ \E m \in Delivered(dsp[i].timing_socket, i) :
        /\ timings' = timings \o m
        /\ kerneltimes' = kerneltimes \o
              [k \in DOMAIN m |-> dsp[m[k]].decimate_kernel_timing_ms]
  /\ LeaveSend(dsp[i].timing_socket, i)
  /\ start_pp' = [start_pp EXCEPT ![i] = @ + 1]
  /\ UNCHANGED <<main, dsp, stream, running, began, decimate_calls,
                 start_imc, acks, kvars, shared_memory, process, copied>>

(* DSPCore::clear_device_and_destroy on the object d.  The buffers, the    *)
(* events and the stream are released in the order of Frees, each under    *)
(* gpuErrchk, then shr_mem->remove_shr_mem() and delete shr_mem.  No       *)
(* pointer is reset after its release, and none is set before its          *)
(* allocation: releasing what was released before is an error of the       *)
(* runtime, and so is releasing what was never allocated unless the        *)
(* pointer happens to be null (zeroed).                                    *)
Cleared(d, zeroed) ==
  LET bad == {k \in DOMAIN Frees :
                /\ Frees[k] \notin d.held
                /\ d.freed[Frees[k]] > 0 \/ ~zeroed}
      n == IF bad = {} THEN Len(Frees)
           ELSE (CHOOSE k \in bad : \A j \in bad : k <= j) - 1
      done == {Frees[k] : k \in 1 .. n} \cap d.held
      released == [d EXCEPT !.held = @ \ done,
                            !.freed = [r \in Resources |->
                                         IF r \in done THEN @[r] + 1 ELSE @[r]],
                            !.teardowns = @ + 1]
  IN IF bad = {}
     THEN [dsp |-> [released EXCEPT !.shr_mem = IF @ = "unmapped" THEN @
                                                ELSE "removed",
                                    !.removals = @ + 1],
           removed |-> TRUE, process |-> "running"]
     ELSE [dsp |-> released, removed |-> FALSE, process |-> gpuErrchk]

(* Thread start_pp calls dp->clear_device_and_destroy(). *)
clear_device_and_destroy(i) ==
  /\ process = "running"
  /\ PpAt(i, "clear_device_and_destroy")
  /\ \E zeroed \in BOOLEAN :
        LET c == Cleared(dsp[i], zeroed)
        IN /\ dsp' = [dsp EXCEPT ![i] = c.dsp]
           /\ process' = c.process
           /\ shared_memory' = IF c.removed
                               THEN [shared_memory EXCEPT ![i] = FALSE]
                               ELSE shared_memory
           /\ start_pp' = IF c.process = "running"
                          THEN [start_pp EXCEPT ![i] = @ + 1]
                          ELSE start_pp
  /\ UNCHANGED <<main, stream, running, began, decimate_calls, start_imc,
                 in_send, raced, acks, timings, kvars, kerneltimes, copied>>

(* delete dp; thread start_pp ends. *)
delete_dp(i) ==
  /\ process = "running"
  /\ PpAt(i, "delete")
  /\ dsp' = [dsp EXCEPT ![i].life = "deleted"]
  /\ start_pp' = [start_pp EXCEPT ![i] = @ + 1]
  /\ UNCHANGED <<main, stream, running, began, decimate_calls, start_imc,
                 in_send, raced, acks, timings, kvars,
                 kerneltimes, shared_memory, process, copied>>

NextPipe ==
  \E i \in Seqs :
    \/ CreateCore(i)
    \/ CopySamples(i)
    \/ CopyFilters(i)
    \/ \E s \in Stages : RunStage(i, s)
    \/ CopyOutput(i)
    \/ AttachPostprocessing(i)
    \/ StreamBegin(i)
    \/ StreamEnd(i)
    \/ StreamStep(i)
    \/ initial_memcpy_callback(i)
    \/ initial_memcpy_callback_return(i)
    \/ send_ack_enter(i)
    \/ send_ack_return(i)
    \/ start_decimate_timing(i)
    \/ cuda_postprocessing_callback(i)
    \/ stop_timing_record(i)
    \/ stop_timing_synchronize(i)
    \/ send_timing_enter(i)
    \/ send_timing_return(i)
    \/ clear_device_and_destroy(i)
    \/ delete_dp(i)

SpecPipe == InitPipe /\ [][NextPipe]_vars

----------------------------------------------------------------------------
(* What has happened to a sequence.                                        *)

(* Thread start_imc has returned from send_ack. *)
AckSent(i) ==
  \E k \in DOMAIN initial_memcpy_callback_handler :
     /\ initial_memcpy_callback_handler[k] = "send_ack"
     /\ start_imc[i] > k

(* Thread start_pp has returned from the call. *)
PpPast(i, call) ==
  \E k \in DOMAIN postprocess : postprocess[k] = call /\ start_pp[i] > k

Begun(i, o) == \E k \in DOMAIN began[i] : began[i][k] = o

Finished(i, o) == Begun(i, o) /\ running[i] # o

KernelOps(s) == {Op(k, StageNames[s]) : k \in Kernels}

StageBegun(i, s) == \E o \in KernelOps(s) : Begun(i, o)

Count(q, n) == Cardinality({k \in DOMAIN q : q[k] = n})

(* The state of the instance of sequence i. *)
State(i) ==
  IF dsp[i].life = "deleted" THEN "Done"
  ELSE IF Begun(i, Memcpy("host_output_h")) THEN "Draining"
  ELSE IF StageBegun(i, 3) THEN "Stage3"
  ELSE IF StageBegun(i, 2) THEN "Stage2"
  ELSE IF StageBegun(i, 1) THEN "Stage1"
  ELSE IF AckSent(i) THEN "CopyAcked"
  ELSE IF Begun(i, Memcpy("rf_samples_d")) THEN "Copying"
  ELSE "Init"

StateOrder ==
  <<"Init", "Copying", "CopyAcked", "Stage1", "Stage2", "Stage3",
    "Draining", "Done">>

(* The instance has been in state StateOrder[k]. *)
Visited(i, k) ==
  CASE k = 1 -> TRUE
    [] k = 2 -> Begun(i, Memcpy("rf_samples_d"))
    [] k = 3 -> AckSent(i)
    [] k \in 4 .. 6 -> StageBegun(i, k - 3)
    [] k = 7 -> Begun(i, Memcpy("host_output_h"))
    [] k = 8 -> dsp[i].life = "deleted"

(* The place of a device operation in the order of a sequence. *)
StepRank(o) ==
  IF o = Memcpy("rf_samples_d") THEN 1
  ELSE IF o.op \in Kernels
  THEN 1 + (CHOOSE s \in Stages : StageNames[s] = o.arg)
  ELSE IF o = Memcpy("host_output_h") THEN 5
  ELSE IF o = Callback("cuda_postprocessing_callback") THEN 6
  ELSE 0

IsStep(o) == StepRank(o) > 0

(* The steps begun so far are the first steps of the order, each begun     *)
(* after the one before it has finished.                                   *)
StepsInOrder(i) ==
  LET steps == SelectSeq(began[i], IsStep)
  IN \A k \in DOMAIN steps : StepRank(steps[k]) = k

(* Every state the instance has been in was entered from the one before. *)
StatesInOrder(i) ==
  \A k \in 2 .. Len(StateOrder) : Visited(i, k) => Visited(i, k - 1)

Product(c) == c.num_taps_per_filter * c.num_freqs

(* Everything that was ever put on the stream of sequence i. *)
OnStream(i) ==
  {began[i][n] : n \in DOMAIN began[i]} \cup {stream[i][n] : n \in DOMAIN stream[i]}

(* The kernels that call k of sequence i has put on the stream. *)
Launched(i, k) ==
  {kn \in Kernels : Op(kn, decimate_calls[i][k].output_msg) \in OnStream(i)}

----------------------------------------------------------------------------
(* The claims about the sequences.                                         *)

(* C4: call_decimate launches the small kernel exactly when                *)
(* num_taps_per_filter * num_freqs <= maxThreadsPerBlock, the large kernel *)
(* exactly when the product is over maxThreadsPerBlock and at most twice   *)
(* it, and no kernel when the product is over twice maxThreadsPerBlock;    *)
(* every call has exactly one of the three outcomes.                       *)
C4_KernelSelection ==
  \A i \in Seqs : \A k \in DOMAIN decimate_calls[i] :
     LET c == decimate_calls[i][k]
     IN /\ (c.kernel = "decimate1024") <=> (Product(c) <= maxThreadsPerBlock)
        /\ (c.kernel = "decimate2048") <=>
              (/\ Product(c) > maxThreadsPerBlock
               /\ Product(c) <= 2 * maxThreadsPerBlock)
        /\ (c.kernel = "none") <=> (Product(c) > 2 * maxThreadsPerBlock)
        /\ Launched(i, k) = {c.kernel} \cap Kernels

(* A sequence has made its three calls, the first with a product of        *)
(* exactly twice maxThreadsPerBlock, and the large kernel is on its way.   *)
C4_Witness ==
  \E i \in Seqs :
     /\ Len(decimate_calls[i]) = 3
     /\ Product(decimate_calls[i][1]) = 2 * maxThreadsPerBlock
     /\ Launched(i, 1) = {"decimate2048"}
     /\ Launched(i, 2) = {"decimate1024"}

(* C5: after a call of call_decimate with a product over twice             *)
(* maxThreadsPerBlock the sequence fails: no later stage of the sequence   *)
(* runs and the sequence does not go on to Done.                           *)
C5_OverLimitFails ==
  \A i \in Seqs : \A k \in DOMAIN decimate_calls[i] :
     decimate_calls[i][k].kernel = "none" =>
        /\ \A s \in Stages : s > k => ~StageBegun(i, s)
        /\ State(i) # "Done"

(* C6: the device operations of a sequence execute in the order H->D copy, *)
(* stage 1, stage 2, stage 3, D->H copy, finalisation, none before the one *)
(* before it has finished, and the instance passes through Init, Copying,  *)
(* CopyAcked, Stage1, Stage2, Stage3, Draining, Done in this order.        *)
C6_SequenceOrder ==
  \A i \in Seqs : StepsInOrder(i) /\ StatesInOrder(i)

(* The same for the sequences all of whose stages launch a kernel. *)
SequenceOrderWhenLaunched ==
  \A i \in Seqs :
     (\A k \in DOMAIN decimate_calls[i] : decimate_calls[i][k].kernel # "none")
        => StepsInOrder(i) /\ StatesInOrder(i)

(* C7: the ack of a sequence has been sent before its kernel_start event   *)
(* is recorded, or even queued for recording.                              *)
C7_AckBeforeKernelStart ==
  \A i \in Seqs :
     (Record("kernel_start") \in OnStream(i) \/ "kernel_start" \in dsp[i].recorded)
        => AckSent(i)

(* A sequence has completed with its kernel_start event recorded. *)
C7_Witness ==
  \E i \in Seqs :
     /\ dsp[i].life = "deleted"
     /\ "kernel_start" \in dsp[i].recorded
     /\ Count(acks, dsp[i].sequence_num) = 1

(* C8: the stage 1 kernel of a sequence begins only after the H->D copy    *)
(* has completed and the copy-complete callback has sent the ack.          *)
C8_StageOneAfterAck ==
  \A i \in Seqs :
     StageBegun(i, 1) => Finished(i, Memcpy("rf_samples_d")) /\ AckSent(i)

(* The stage 1 kernel of a sequence is executing. *)
C8_Witness ==
  \E i \in Seqs : running[i] \in KernelOps(1) /\ AckSent(i)

(* C9: the shared-memory slot of a sequence is removed only after the ack  *)
(* of the sequence has been sent, only by the teardown, and once.          *)
C9_SlotReleasedOnce ==
  \A i \in Seqs :
     /\ dsp[i].removals <= 1
     /\ dsp[i].removals = 1 =>
           AckSent(i) /\ PpPast(i, "clear_device_and_destroy")
     /\ dsp[i].life = "deleted" => dsp[i].removals = 1

(* A sequence has completed and its slot has been removed. *)
C9_Witness ==
  \E i \in Seqs :
     dsp[i].life = "deleted" /\ dsp[i].removals = 1 /\ dsp[i].shr_mem = "removed"

(* C10: every sequence that completes has put exactly one ack and exactly  *)
(* one timing message with its own sequence number on the channels, and no *)
(* sequence number arrives twice.                                          *)
C10_OneAckOneTiming ==
  \A i \in Seqs :
     /\ Count(acks, dsp[i].sequence_num) <= 1
     /\ Count(timings, dsp[i].sequence_num) <= 1
     /\ dsp[i].life = "deleted" =>
           /\ Count(acks, dsp[i].sequence_num) = 1
           /\ Count(timings, dsp[i].sequence_num) = 1

(* C11: an instance is deleted only by thread start_pp, after the D->H     *)
(* copy of its sequence has completed and after send_timing has returned;  *)
(* postprocess makes its calls in the order stop_timing, send_timing,      *)
(* clear_device_and_destroy, delete; and nothing of the instance is        *)
(* released before send_timing has returned.                               *)
C11_DestroyedAfterTiming ==
  \A i \in Seqs :
     /\ dsp[i].life = "deleted" =>
           /\ PpPast(i, "delete")
           /\ PpPast(i, "clear_device_and_destroy")
           /\ Finished(i, Memcpy("host_output_h"))
     /\ (\/ dsp[i].teardowns > 0
         \/ dsp[i].removals > 0
         \/ \E r \in Resources : dsp[i].freed[r] > 0
         \/ PpPast(i, "clear_device_and_destroy")) =>
           /\ PpPast(i, "send_timing")
           /\ i \notin in_send[dsp[i].timing_socket]
     /\ PpPast(i, "send_timing") =>
           /\ PpPast(i, "stop_timing")
           /\ "stop" \in dsp[i].recorded
           /\ Finished(i, Memcpy("host_output_h"))

(* A sequence has been torn down and deleted after its timing message      *)
(* arrived.                                                                *)
C11_Witness ==
  \E i \in Seqs :
     /\ dsp[i].life = "deleted"
     /\ dsp[i].teardowns = 1
     /\ Count(timings, dsp[i].sequence_num) = 1

(* C12: nothing an instance acquired is released twice, and once the       *)
(* instance of a completed sequence is deleted, each of its eight buffers, *)
(* its three events and its stream has been released exactly once, it      *)
(* holds nothing, and its shared memory has been removed exactly once.     *)
C12_AllReleasedOnce ==
  \A i \in Seqs :
     /\ \A r \in Resources : dsp[i].freed[r] <= 1
     /\ dsp[i].removals <= 1
     /\ dsp[i].life = "deleted" =>
           /\ dsp[i].held = {}
           /\ \A r \in Resources : dsp[i].freed[r] = 1
           /\ dsp[i].removals = 1
           /\ dsp[i].shr_mem = "removed"
           /\ ~shared_memory[i]

(* A sequence that held all its buffers has been deleted, while another    *)
(* still holds its own.                                                    *)
C12_Witness ==
  \E i, j \in Seqs :
     /\ dsp[i].life = "deleted"
     /\ dsp[i].held = {}
     /\ dsp[i].freed["host_output_h"] = 1
     /\ dsp[j].life = "live"
     /\ "rf_samples_d" \in dsp[j].held

----------------------------------------------------------------------------
(* One DSPCore in the hands of a caller that uses its public operations in *)
(* any order: the constructor, the eight allocations, the teardown and     *)
(* delete.                                                                 *)

MaxTeardowns == 2

InitObject == NoSequences /\ NoLaunch

(* Nothing but the object, its stream, the shared memory and the process   *)
(* changes.                                                                *)
ObjectStep(c) ==
  /\ process = "running"
  /\ dsp' = [dsp EXCEPT ![1] = c.dsp]
  /\ stream' = [stream EXCEPT ![1] = c.stream]
  /\ UNCHANGED <<main, running, began, decimate_calls, start_imc, start_pp,
                 in_send, raced, acks, timings, kerneltimes, kvars, copied>>

(* new DSPCore(ack_s, timing_s, 1, name). *)
Construct ==
  /\ dsp[1].life = "unborn"
  /\ ObjectStep(DSPCore_new("ack_socket", "timing_socket", 1, 1))
  /\ UNCHANGED <<shared_memory, process>>

(* What the eight allocating methods each make of the object. *)
Allocations(c) ==
  {allocate_and_copy_rf_samples(c),
   allocate_and_copy_first_stage_filters(c),
   allocate_and_copy_second_stage_filter(c),
   allocate_and_copy_third_stage_filter(c),
   allocate_first_stage_output(c),
   allocate_second_stage_output(c),
   allocate_third_stage_output(c),
   allocate_and_copy_host_output(c)}

(* The caller allocates a buffer the object has not had yet. *)
AllocateOne ==
  /\ dsp[1].life = "live"
  /\ dsp[1].teardowns = 0
  /\ \E c \in Allocations(Core(1)) :
        /\ c.dsp.held # dsp[1].held
        /\ ObjectStep(c)
  /\ UNCHANGED <<shared_memory, process>>

(* dp->clear_device_and_destroy(). *)
Teardown ==
  /\ dsp[1].life = "live"
  /\ dsp[1].teardowns < MaxTeardowns
  /\ \E zeroed \in BOOLEAN :
        LET c == Cleared(dsp[1], zeroed)
        IN /\ ObjectStep([dsp |-> c.dsp, stream |-> stream[1]])
           /\ process' = c.process
           /\ shared_memory' = IF c.removed
                               THEN [shared_memory EXCEPT ![1] = FALSE]
                               ELSE shared_memory

(* delete dp: the class has no destructor of its own. *)
Delete ==
  /\ dsp[1].life = "live"
  /\ ObjectStep([dsp |-> [dsp[1] EXCEPT !.life = "deleted"],
                 stream |-> stream[1]])
  /\ UNCHANGED <<shared_memory, process>>

NextObject == Construct \/ AllocateOne \/ Teardown \/ Delete

SpecObject == InitObject /\ [][NextObject]_vars

(* C13: an instance that is alive has its stream, and an instance that has *)
(* been deleted has had its stream destroyed, exactly once, whatever the   *)
(* caller does with the constructor, clear_device_and_destroy and delete.  *)
C13_StreamIffInstance ==
  \A i \in Seqs :
     /\ dsp[i].life = "live" =>
           "stream" \in dsp[i].held /\ dsp[i].freed["stream"] = 0
     /\ dsp[i].life = "deleted" =>
           "stream" \notin dsp[i].held /\ dsp[i].freed["stream"] = 1

(* C14: a call of clear_device_and_destroy on an instance that has been    *)
(* torn down before releases nothing and changes nothing: not what the     *)
(* instance holds or has released, not the shared memory, not the process. *)
C14_TeardownIdempotent ==
  [][\A i \in Seqs :
       (dsp[i].teardowns >= 1 /\ dsp'[i].teardowns > dsp[i].teardowns) =>
          /\ dsp'[i].held = dsp[i].held
          /\ dsp'[i].freed = dsp[i].freed
          /\ dsp'[i].removals = dsp[i].removals
          /\ dsp'[i].shr_mem = dsp[i].shr_mem
          /\ shared_memory' = shared_memory
          /\ process' = process]_vars

----------------------------------------------------------------------------
(* The stream callbacks and their threads.                                 *)

(* The callback of sequence i is executing and cannot return yet: it waits *)
(* for the thread it started.                                              *)
CallbackWaits(i) ==
  /\ running[i].op = "callback"
  /\ ~ENABLED initial_memcpy_callback_return(i)

(* C15: no call of the GPU runtime is made while a stream callback is      *)
(* executing: while initial_memcpy_callback or cuda_postprocessing_callback*)
(* has not returned, it is not waiting for a thread that is at a call of   *)
(* the runtime (cudaEventRecord in start_decimate_timing, in stop_timing). *)
C15_NoGpuCallInCallback ==
  \A i \in Seqs :
     CallbackWaits(i) =>
        /\ ~ImcAt(i, "start_decimate_timing")
        /\ ~PpAt(i, "stop_timing")

(* C16: a stream callback that has started its thread can return at once;  *)
(* it never waits for the thread.                                          *)
C16_CallbackNeverWaits ==
  \A i \in Seqs : ~CallbackWaits(i)

----------------------------------------------------------------------------
(* The sequences when the machine runs short of resources or the shared    *)
(* memory named for the first sequence does not exist.                     *)

InitFault ==
  /\ main = [seq |-> 1, step |-> 1, num_freqs |-> 1,
             taps |-> <<Pow2(9), LaterStageTaps, LaterStageTaps>>]
  /\ dsp = [i \in Seqs |-> NoCore]
  /\ stream = [i \in Seqs |-> <<>>]
  /\ running = [i \in Seqs |-> NoOp]
  /\ began = [i \in Seqs |-> <<>>]
  /\ decimate_calls = [i \in Seqs |-> <<>>]
  /\ start_imc = [i \in Seqs |-> 0]
  /\ start_pp = [i \in Seqs |-> 0]
  /\ in_send = [s \in Sockets |-> {}]
  /\ raced = [s \in Sockets |-> {}]
  /\ acks = <<>>
  /\ timings = <<>>
  /\ kerneltimes = <<>>
  /\ shared_memory \in {[i \in Seqs |-> i # 1 \/ b] : b \in BOOLEAN}
  /\ process = "running"
  /\ copied = <<>>
  /\ NoLaunch

(* The host thread's call ends the process; the DSPCore of sequence i and  *)
(* its stream stay as the call had left them, c.                           *)
HostStepFails(i, c, how) ==
  /\ process = "running"
  /\ main.seq = i
  /\ process' = how
  /\ dsp' = [dsp EXCEPT ![i] = c.dsp]
  /\ stream' = [stream EXCEPT ![i] = c.stream]
  /\ UNCHANGED <<main, running, began, decimate_calls, start_imc, start_pp,
                 in_send, raced, acks, timings, kerneltimes, shared_memory,
                 kvars, copied>>

(* The constructor's cudaStreamCreate or one of its cudaEventCreate calls  *)
(* reports an error to gpuErrchk: what was created before stays.           *)
CreateCoreFails(i) ==
  /\ At(i, "create")
  /\ \E n \in 0 .. 3 :
        LET c == DSPCore_new("ack_socket", "timing_socket", i, i)
        IN HostStepFails(i, [dsp |-> [c.dsp EXCEPT
                                        !.held = {Created[k] : k \in 1 .. n},
                                        !.shr_mem = "none"],
                             stream |-> <<>>], gpuErrchk)

(* open_shr_mem on a name that does not exist, where the handler does not  *)
(* return from it: nothing in the constructor or its caller handles it.    *)
open_shr_mem_terminates(i) ==
  /\ At(i, "create")
  /\ ~shared_memory[i]
  /\ HostStepFails(i, [dsp |-> [DSPCore_new("ack_socket", "timing_socket",
                                            i, i).dsp
                                  EXCEPT !.shr_mem = "none"],
                       stream |-> <<Record("initial_start")>>], "terminated")

(* The object and its stream where a cudaMalloc or cudaHostAlloc of the    *)
(* host thread's step, or the cudaMemcpyAsync of the RF samples, reports   *)
(* an error.                                                               *)
Unfinished(i) ==
  IF At(i, "copy_samples")
  THEN {Core(i), Allocate(Core(i), "rf_samples_d")}
  ELSE IF At(i, "copy_filters")
  THEN {FilterAllocations(Core(i))[k] : k \in 1 .. 6}
  ELSE IF At(i, "copy_output") THEN {Core(i)}
  ELSE {}

(* gpuErrchk(cudaMalloc(...)) with the device memory exhausted. *)
AllocationFails(i) ==
  \E c \in Unfinished(i) : HostStepFails(i, c, gpuErrchk)

(* socket->send(msg) throws zmq::error_t in the thread of sequence i that  *)
(* is inside it.  send_ack and send_timing call send outside any try       *)
(* block and so do their callers up to the thread function: the exception  *)
(* leaves the thread function and the process is aborted.                  *)
send_throws(i) ==
  /\ process = "running"
  /\ \E sock \in Sockets : i \in in_send[sock]
  /\ process' = "aborted"
  /\ UNCHANGED <<main, dsp, stream, running, began, decimate_calls, start_imc,
                 start_pp, in_send, raced, acks, timings, kerneltimes,
                 shared_memory, kvars, copied>>

NextFault ==
  \/ NextPipe
  \/ \E i \in Seqs :
       \/ CreateCoreFails(i)
       \/ open_shr_mem_terminates(i)
       \/ AllocationFails(i)
       \/ send_throws(i)

SpecFault == InitFault /\ [][NextFault]_vars

----------------------------------------------------------------------------
(* What has gone wrong for a sequence, and what was reported.              *)

(* Nothing more will happen: the process has ended, or every sequence has  *)
(* completed and its instance is deleted.                                  *)
Quiescent ==
  \/ process # "running"
  \/ \A i \in Seqs : dsp[i].life = "deleted"

(* The constructor of sequence i found no shared memory under its name. *)
SlotMissing(i) ==
  \/ dsp[i].shr_mem = "unmapped"
  \/ process = "terminated" /\ main.seq = i

(* An allocation or copy of the host thread failed for sequence i. *)
AllocationFailed(i) ==
  /\ process = gpuErrchk
  /\ main.seq = i
  /\ DriverSteps[main.step] \in {"copy_samples", "copy_filters", "copy_output"}

(* Sequence i has failed: at its construction, at an allocation, for its   *)
(* missing shared memory, or at a stage that is over the kernels' limit.   *)
Failed(i) ==
  \/ process # "running" /\ main.seq = i
  \/ SlotMissing(i)
  \/ \E k \in DOMAIN decimate_calls[i] : decimate_calls[i][k].kernel = "none"

(* The timing channel has a message with the number of sequence i and the  *)
(* kernel time -1.                                                         *)
Sentinel(i) ==
  \E k \in DOMAIN timings :
     timings[k] = dsp[i].sequence_num /\ kerneltimes[k] = -1

(* Sequence j has completed: acknowledged, reported and torn down. *)
Completed(j) ==
  /\ dsp[j].life = "deleted"
  /\ Count(acks, j) = 1
  /\ Count(timings, j) = 1

(* C17: a sequence whose shared memory does not exist puts no H->D copy of *)
(* the samples on its stream and sends no ack; the process goes on; and    *)
(* when nothing more happens the timing channel has its sentinel message   *)
(* and the other sequences have completed.                                 *)
C17_SlotMissing ==
  \A i \in Seqs :
     SlotMissing(i) =>
        /\ Memcpy("rf_samples_d") \notin OnStream(i)
        /\ Count(acks, i) = 0
        /\ process = "running"
        /\ Quiescent =>
              /\ Sentinel(i)
              /\ \A j \in Seqs \ {i} : Completed(j)

(* C18: when nothing more happens, every instance that was constructed,    *)
(* whether its sequence completed or failed on the way, holds no buffer,   *)
(* event or stream, and its shared memory has been removed.                *)
C18_FailureAtomicity ==
  Quiescent =>
     \A i \in Seqs :
        dsp[i].life # "unborn" =>
           /\ dsp[i].held = {}
           /\ dsp[i].freed["stream"] = 1
           /\ ~shared_memory[i]

(* C19: when an allocation of a sequence has failed, the failure has been  *)
(* reported, the instance is deleted, the process goes on, and every other *)
(* sequence completes.                                                     *)
C19_AllocationFailureIsLocal ==
  \A i \in Seqs :
     AllocationFailed(i) =>
        /\ process = "running"
        /\ Sentinel(i)
        /\ dsp[i].life = "deleted"
        /\ Quiescent => \A j \in Seqs \ {i} : Completed(j)

(* C20: when nothing more happens, every sequence that failed has a timing *)
(* message with its number and the kernel time -1; and no message of a     *)
(* sequence that completed without failure has the kernel time -1.         *)
C20_FailureSurfaced ==
  \A i \in Seqs :
     /\ (Quiescent /\ Failed(i)) => Sentinel(i)
     /\ (dsp[i].life = "deleted" /\ ~Failed(i)) => ~Sentinel(i)

(* A send of a thread of sequence i has failed. *)
SendFailed(i) ==
  /\ process = "aborted"
  /\ \E sock \in Sockets : i \in in_send[sock]

(* C21: when a send on the ack or the timing socket fails, the process     *)
(* goes on, and when nothing more happens the sequence has been torn down, *)
(* holds nothing and its instance is deleted.                              *)
C21_SendFailureDropsMessage ==
  \A i \in Seqs :
     SendFailed(i) =>
        /\ process = "running"
        /\ Quiescent => dsp[i].life = "deleted" /\ dsp[i].held = {}
----------------------------------------------------------------------------
(* The sequences under fair scheduling: the stream, the callback thread,   *)
(* the workers and the host thread each take the step they are ready for;  *)
(* that a call fails is never required.                                    *)
SpecLive == InitFault /\ [][NextFault]_vars /\ WF_vars(NextPipe)

(* Sequence i is done: its timing message is sent and its instance is      *)
(* destroyed.                                                              *)
Done(i) ==
  /\ dsp[i].life = "deleted"
  /\ Count(timings, i) >= 1

(* C22: under fair scheduling every sequence whose instance was created    *)
(* is eventually done, or its failure is reported on the timing channel.   *)
C22_EverySequenceTerminates ==
  \A i \in Seqs :
     (dsp[i].life = "live" /\ process = "running") ~> (Done(i) \/ Sentinel(i))
----------------------------------------------------------------------------
(* The order of the acks and the order of the copies.                      *)

(* m and n are both in q, and m's first place is before n's. *)
Before(q, m, n) ==
  \E k \in DOMAIN q :
     /\ q[k] = m
     /\ \A j \in 1 .. k : q[j] # n
     /\ \E j \in DOMAIN q : q[j] = n

(* C23: of two sequences m < n whose acks are both on the ack channel, the *)
(* ack of m is before the ack of n exactly if the H->D copy of m's samples *)
(* completed before that of n's.                                           *)
C23_AckOrderIsCopyOrder ==
  \A m, n \in Seqs :
     (m < n /\ Count(acks, m) >= 1 /\ Count(acks, n) >= 1) =>
        (Before(acks, m, n) <=> Before(copied, m, n))
----------------------------------------------------------------------------
(* The samples the threads of a block read.                                *)

(* Where the sample registers of thread t in block b come from. *)
Loads(L, b, t) ==
  IF L.kernel = "decimate1024" THEN loads_1024(L, b, t) ELSE loads_2048(L, b, t)

(* The place, within the antenna's samples, of the sample that register k  *)
(* of thread t in block b stands for: k*D + t, or k*D + 2t and the next.   *)
Position(L, b, t, k) ==
  IF L.kernel = "decimate1024"
  THEN b[1] * L.dm_rate + threadIdx_x(L, t)
  ELSE b[1] * L.dm_rate + 2 * threadIdx_x(L, t) + (k - 1)

(* C24: in the block that is running, every sample register of every       *)
(* thread is zero exactly if its sample's position j is at or past         *)
(* samples_per_antenna, and otherwise is read at antenna*S + j, inside     *)
(* the antenna's own samples and inside the buffer.                        *)
C24_EdgePolicy ==
  blockIdx # NoBlock =>
     \A t \in Threads(launch) :
        \A k \in DOMAIN Loads(launch, blockIdx, t) :
           LET r == Loads(launch, blockIdx, t)[k]
               j == Position(launch, blockIdx, t, k)
               S == launch.samples_per_antenna
           IN /\ r.zero <=> j >= S
              /\ ~r.zero =>
                    /\ r.at = blockIdx[2] * S + j
                    /\ r.at < (blockIdx[2] + 1) * S
                    /\ r.at < launch.num_antennas * S

(* A block of decimate2048 has computed its products with a thread whose   *)
(* two samples are both past the end, a thread with only the second past   *)
(* the end, and a thread with both inside.                                 *)
C24_Witness ==
  /\ launch.kernel = "decimate2048"
  /\ kpc = "tree512"
  /\ \E t \in Threads(launch) :
        Loads(launch, blockIdx, t) = <<Zeroed, Zeroed>>
  /\ \E t \in Threads(launch) :
        LET r == Loads(launch, blockIdx, t)
        IN ~r[1].zero /\ r[2].zero
  /\ \E t \in Threads(launch) :
        LET r == Loads(launch, blockIdx, t)
        IN ~r[1].zero /\ ~r[2].zero
----------------------------------------------------------------------------
(* The shared memory a stage asks for and what the device has.             *)

(* sizeof(cuComplex): two floats. *)
sizeof_cuComplex == 8

(* cudaDeviceProp::sharedMemPerBlock of the devices the program may meet:  *)
(* 16 KB and 48 KB.                                                        *)
SharedMemPerBlock == {16384, 49152}

(* The dynamic shared memory of the launch a call of call_decimate asks    *)
(* for, in bytes.                                                          *)
Demand(c) == c.num_freqs * c.num_taps_per_filter * sizeof_cuComplex

(* C25: after a call of call_decimate whose stage needs more shared memory *)
(* than the device has per block, no kernel was launched for the stage,    *)
(* no later stage of the sequence runs, the sequence does not go on to     *)
(* Done, and the process goes on.                                          *)
C25_SharedMemoryDemandRejected ==
  \A cap \in SharedMemPerBlock :
     \A i \in Seqs : \A k \in DOMAIN decimate_calls[i] :
        Demand(decimate_calls[i][k]) > cap =>
           /\ decimate_calls[i][k].kernel = "none"
           /\ \A s \in Stages : s > k => ~StageBegun(i, s)
           /\ State(i) # "Done"
           /\ process = "running"
----------------------------------------------------------------------------
(* A kernel as a function of its input.                                    *)

(* The block with every entry and register computed. *)
Computed(st) == [shm |-> Explicit(st.shm), reg |-> Explicit(st.reg)]

(* total_sum of every thread of block b when the kernel returns. *)
BlockResult(L, b) ==
  LET s0 == [shm |-> [j \in 0 .. shr_mem_taps(L) - 1 |-> Garbage],
             reg |-> [t \in Threads(L) |-> Garbage]]
      s1 == Computed(AfterPhase(L, b, "product", L.hw.sched, s0))
      s2 == Computed(AfterPhase(L, b, "tree512", L.hw.sched, s1))
      s3 == Computed(AfterPhase(L, b, "tree256", L.hw.sched, s2))
      s4 == Computed(AfterPhase(L, b, "tree128", L.hw.sched, s3))
      s5 == Computed(AfterPhase(L, b, "tree64", L.hw.sched, s4))
  IN Explicit([t \in Threads(L) |->
                 parallel_reduce_warp(L, s5, L.hw.undef, t)])

(* The threads, with their blocks, that write output slot o. *)
WritersOf(L, o) ==
  {w \in Blocks(L) \X {ty * blockDim(L).x : ty \in 0 .. blockDim(L).y - 1} :
      total_offset(L, w[1], w[2]) = o}

(* decimated_samples when the kernel launched as L has finished: each slot *)
(* holds what the last block to write it has stored.                       *)
KernelOutput(L) ==
  LET results == Explicit([b \in Blocks(L) |-> BlockResult(L, b)])
  IN Explicit([o \in OutSlots(L) |->
       IF WritersOf(L, o) = {} THEN Garbage
       ELSE LET w == CHOOSE v \in WritersOf(L, o) :
                        \A u \in WritersOf(L, o) :
                           BlockNum(L, u[1]) <= BlockNum(L, v[1])
            IN results[w[1]][w[2]]])

(* The scalars of the linear combinations tried. *)
Scalars ==
  {[alpha |-> make_cuComplex(2, 0), beta |-> make_cuComplex(1, 0)],
   [alpha |-> make_cuComplex(1, 0), beta |-> make_cuComplex(-1, 0)],
   [alpha |-> make_cuComplex(0, 1), beta |-> make_cuComplex(3, 0)]}

(* The launches on alpha*x + beta*y, x the samples "ones", y the samples   *)
(* "ramp", with one bank of taps.                                          *)
MixedLaunches ==
  {[L EXCEPT !.spat = "mix"] @@ c :
     L \in {K \in Launches : K.kernel # "none" /\ K.spat = "ramp"
                             /\ K.dm_rate # 3},
     c \in Scalars}

InitLinear ==
  /\ NoSequences
  /\ launch \in MixedLaunches
  /\ kpc = "idle"
  /\ todo = Blocks(launch)
  /\ blockIdx = NoBlock
  /\ filter_products = <<>>
  /\ total_sum = <<>>
  /\ reduce_in = <<>>
  /\ decimated_samples = [o \in OutSlots(launch) |-> Garbage]
  /\ writes = <<>>

(* The kernel runs from its launch to its end. *)
Decimate ==
  /\ kpc = "idle"
  /\ kpc' = "done"
  /\ todo' = {}
  /\ decimated_samples' = KernelOutput(launch)
  /\ UNCHANGED <<launch, blockIdx, filter_products, total_sum, reduce_in, writes>>
  /\ UNCHANGED pvars

SpecLinear == InitLinear /\ [][Decimate]_vars

(* C26: the output of a kernel on alpha*x + beta*y is, at every output     *)
(* slot, alpha times its output on x plus beta times its output on y, the  *)
(* taps being the same.                                                    *)
C26_Linearity ==
  kpc = "done" =>
     LET outx == KernelOutput([launch EXCEPT !.spat = "ones"])
         outy == KernelOutput([launch EXCEPT !.spat = "ramp"])
     IN \A o \in OutSlots(launch) :
           decimated_samples[o] = cuCaddf(cuCmulf(launch.alpha, outx[o]),
                                          cuCmulf(launch.beta, outy[o]))
----------------------------------------------------------------------------
(* The threads that send on a socket.                                      *)

(* C27: never are two threads inside send() on the ack socket, or on the   *)
(* timing socket, at the same time.                                        *)
C27_SingleProducer ==
  \A sock \in Sockets : Cardinality(in_send[sock]) <= 1
----------------------------------------------------------------------------
(* The configuration of the launches.                                      *)

(* C28: the kernel that is launched has a grid of                          *)
(* samples_per_antenna / dm_rate by num_antennas blocks, a block of        *)
(* num_taps_per_filter by num_freqs threads (decimate1024) or of half the  *)
(* taps by num_freqs threads (decimate2048), shared memory for             *)
(* num_freqs * num_taps_per_filter cuComplex, and no more than             *)
(* maxThreadsPerBlock threads in a block.                                  *)
C28_LaunchGeometry ==
  launch.kernel # "none" =>
     /\ gridDim(launch).x = launch.samples_per_antenna \div launch.dm_rate
     /\ gridDim(launch).y = launch.num_antennas
     /\ blockDim(launch).x = IF launch.kernel = "decimate1024"
                             THEN launch.num_taps_per_filter
                             ELSE launch.num_taps_per_filter \div 2
     /\ blockDim(launch).y = launch.num_freqs
     /\ shr_mem_taps(launch) * sizeof_cuComplex
           = launch.num_freqs * launch.num_taps_per_filter * sizeof_cuComplex
     /\ blockDim(launch).x * blockDim(launch).y <= maxThreadsPerBlock
     /\ Cardinality(Threads(launch)) = blockDim(launch).x * blockDim(launch).y
     /\ Cardinality(Blocks(launch)) = gridDim(launch).x * gridDim(launch).y

(* A launch of decimate2048 with 2048 taps in all is running its last      *)
(* block, of maxThreadsPerBlock threads.                                   *)
C28_Witness ==
  /\ launch.kernel = "decimate2048"
  /\ launch.num_taps_per_filter * launch.num_freqs = 2 * maxThreadsPerBlock
  /\ Cardinality(Threads(launch)) = maxThreadsPerBlock
  /\ kpc = "store"
  /\ todo = {}
----------------------------------------------------------------------------
(* The buffers the stages read and write.                                  *)

(* The buffers allocate_first/second/third_stage_output allocate. *)
OutputBuffers ==
  <<"first_stage_output_d", "second_stage_output_d", "third_stage_output_d">>

(* The buffers the filter taps are copied to. *)
FilterBuffers ==
  {"first_stage_bp_filters_d", "second_stage_filters_d", "third_stage_filters_d"}

(* allocate_and_copy_host_output: the device buffer copied to the host. *)
host_output_source == "third_stage_output_d"

(* C29: every stage writes the output buffer allocated for it, never a     *)
(* buffer of filter taps; the stage after it reads what it wrote; and what *)
(* is copied to the host is the buffer the third stage wrote.              *)
C29_AccessorsReturnTheirBuffers ==
  \A i \in Seqs : \A k \in DOMAIN decimate_calls[i] :
     LET c == decimate_calls[i][k]
     IN /\ c.decimated_samples = OutputBuffers[k]
        /\ c.decimated_samples \notin FilterBuffers
        /\ k > 1 => c.original_samples = OutputBuffers[k - 1]
        /\ k = 3 => c.decimated_samples = host_output_source
----------------------------------------------------------------------------
(* The events of a stream among its copies and kernels.                    *)

(* C30: in the order a stream executes, its kernel_start event is recorded *)
(* after the H->D copy of the samples and before any stage kernel, and its *)
(* stop event after the D->H copy; and the kernel time of a sequence is    *)
(* never greater than its total time.                                      *)
C30_KernelTimingCoversDecimation ==
  \A i \in Seqs :
     /\ \A k \in DOMAIN began[i] :
           /\ began[i][k] = Record("kernel_start") =>
                 /\ \E j \in 1 .. k - 1 : began[i][j] = Memcpy("rf_samples_d")
                 /\ \A j \in 1 .. k - 1 : began[i][j].op \notin Kernels
           /\ began[i][k] = Record("stop") =>
                 \E j \in 1 .. k - 1 : began[i][j] = Memcpy("host_output_h")
     /\ dsp[i].decimate_kernel_timing_ms <= dsp[i].total_process_timing_ms
----------------------------------------------------------------------------
(* The threads that may use an instance.                                   *)

(* Something is still to use the instance of sequence i: work on its       *)
(* stream, a callback that is executing, thread start_imc or start_pp      *)
(* before its end, or a send in progress.                                  *)
InUse(i) ==
  \/ stream[i] # <<>>
  \/ running[i] # NoOp
  \/ start_imc[i] \in DOMAIN initial_memcpy_callback_handler
  \/ start_pp[i] \in DOMAIN postprocess
  \/ \E sock \in Sockets : i \in in_send[sock]

(* C31: once the instance of a sequence is deleted, nothing is left that   *)
(* uses it: its stream is empty and idle, both its threads have ended and  *)
(* none is inside a send; and the host thread is past the sequence.        *)
C31_NoUseAfterDestruction ==
  \A i \in Seqs :
     dsp[i].life = "deleted" => (~InUse(i) /\ main.seq # i)

(* The instance of one sequence is deleted while thread start_imc of       *)
(* another, started by its callback, is at work.                           *)
C31_Witness ==
  \E i, j \in Seqs :
     /\ dsp[i].life = "deleted"
     /\ dsp[j].life = "live"
     /\ start_imc[j] \in DOMAIN initial_memcpy_callback_handler
     /\ running[j] = Callback("initial_memcpy_callback")
----------------------------------------------------------------------------
(* The accesses to shared memory between two barriers.                     *)

(* The intervals of a block, each ended by a barrier or by the return of   *)
(* parallel_reduce.                                                        *)
Intervals == {"product"} \cup TreeSteps \cup {"warp"}

(* The entries of filter_products thread t reads in interval ph: in the    *)
(* product phase decimate2048 adds up the two products it has stored; the  *)
(* first tree step begins with total_sum = data[tap_offset]; a thread that *)
(* takes a tree step reads the entry h further on; and the threads of the  *)
(* last interval read the entry 32 further on in a block at least 64 wide. *)
ReadsOf(L, ph, t) ==
  IF ph = "product"
  THEN (IF L.kernel = "decimate1024" THEN {}
        ELSE {tap_offset(L, t), tap_offset(L, t) + 1})
  ELSE IF ph \in TreeSteps
  THEN (IF ph = "tree512" THEN {tap_offset(L, t)} ELSE {})
       \cup (IF tree_active(L, TreeH(ph), t)
             THEN {tap_offset(L, t) + TreeH(ph)} ELSE {})
  ELSE IF threadIdx_x(L, t) < 32 /\ blockDim(L).x >= 64
  THEN {tap_offset(L, t) + 32}
  ELSE {}

(* The entries thread t writes in interval ph. *)
WritesOf(L, ph, t) ==
  IF ph = "product"
  THEN (IF L.kernel = "decimate1024" THEN {tap_offset(L, t)}
        ELSE {tap_offset(L, t), tap_offset(L, t) + 1})
  ELSE IF ph \in TreeSteps /\ tree_active(L, TreeH(ph), t)
  THEN {tap_offset(L, t)}
  ELSE {}

(* The threads that read or write entry j in interval ph: a thread only    *)
(* touches its tap_offset and the entries 1, 32 or h further on.           *)
Accessors(L, ph, j) ==
  {u \in ThreadsAt(L, j) \cup ThreadsAt(L, j - 1) \cup ThreadsAt(L, j - 32)
          \cup ThreadsAt(L, j - TreeH(ph)) :
      j \in WritesOf(L, ph, u) \cup ReadsOf(L, ph, u)}

(* No entry is written by one thread and read or written by another in     *)
(* interval ph.                                                            *)
RaceFree(L, ph) ==
  \A t \in Threads(L) : \A j \in WritesOf(L, ph, t) :
     Accessors(L, ph, j) \subseteq {t}

(* C32: no interval of a block of decimate1024 has an entry of shared      *)
(* memory that one thread writes and another thread reads or writes.       *)
C32_SmallKernelRaceFree ==
  (launch.kernel = "decimate1024" /\ kpc \in Intervals) => RaceFree(launch, kpc)

(* A block of decimate1024 of two rows of 512 taps has made the tree step  *)
(* in which the threads below 256 of a row add the entries of the threads  *)
(* above them.                                                             *)
C32_Witness ==
  /\ launch.kernel = "decimate1024"
  /\ blockDim(launch).x = 512
  /\ blockDim(launch).y = 2
  /\ kpc = "tree128"
  /\ \E t \in Threads(launch) : tree_active(launch, 256, t)
  /\ \E t \in Threads(launch) : ~tree_active(launch, 256, t)

(* C33: no interval of a block of decimate2048 has an entry of shared      *)
(* memory that one thread writes and another thread reads or writes.       *)
C33_LargeKernelRaceFree ==
  (launch.kernel = "decimate2048" /\ kpc \in Intervals) => RaceFree(launch, kpc)
----------------------------------------------------------------------------
(* The barriers of a block.                                                *)

(* The intervals that end with a __syncthreads(). *)
Barriers == {"product"} \cup TreeSteps

(* A block hangs when it waits at a barrier that one of its threads never  *)
(* executes.                                                               *)
Hung == kpc \in Barriers /\ ~BarrierPassed

(* The steps the running block has still to make to its end. *)
StepsLeft ==
  IF kpc = "product" THEN 7
  ELSE IF kpc \in TreeSteps THEN 2 + Cardinality({ph \in TreeSteps : TreeH(ph) <= TreeH(kpc)})
  ELSE IF kpc = "warp" THEN 2
  ELSE IF kpc = "store" THEN 1
  ELSE 0

(* The steps the grid has still to make until the kernel is done. *)
Remaining == 8 * Cardinality(todo) + StepsLeft

----------------------------------------------------------------------------
(* The layout of the output block.                                         *)

(* The thread of row f of a block that writes the output sample. *)
Writer(L, f) == f * blockDim(L).x

(* C35: with the samples of an antenna a multiple of the decimation rate   *)
(* and K their quotient, the thread of frequency f in the block of antenna *)
(* a and output sample k writes at f*A*K + a*K + k, inside the output      *)
(* block; every slot has one writing thread of one block, no slot is       *)
(* written twice, and when the kernel is done every slot has been written  *)
(* once.                                                                   *)
C35_OutputWritesDisjoint ==
  LET S == launch.samples_per_antenna
      D == launch.dm_rate
      K == S \div D
      A == launch.num_antennas
      F == launch.num_freqs
  IN /\ S % D = 0
     /\ OutSlots(launch) = 0 .. (F * A * K - 1)
     /\ \A b \in Blocks(launch) : \A f \in 0 .. F - 1 :
          /\ total_offset(launch, b, Writer(launch, f)) = f * A * K + b[2] * K + b[1]
          /\ total_offset(launch, b, Writer(launch, f)) \in OutSlots(launch)
     /\ \A o \in OutSlots(launch) :
          /\ Cardinality(WritersOf(launch, o)) = 1
          /\ writes[o] <= 1
          /\ (kpc = "done" /\ todo = {}) => writes[o] = 1

(* A kernel of two frequencies is done: its four blocks have written the   *)
(* eight slots of the output block.                                        *)
C35_Witness ==
  /\ kpc = "done"
  /\ todo = {}
  /\ launch.num_freqs = 2
  /\ Cardinality(Blocks(launch)) = 4
  /\ \A o \in OutSlots(launch) : writes[o] = 1
----------------------------------------------------------------------------
(* The indices of a block into shared memory and into the bank of taps.    *)

(* Lines 207 / 302-303: the entries of filter_taps thread t reads for its  *)
(* products.                                                               *)
TapReadsOf(L, t) ==
  IF L.kernel = "decimate1024" THEN {tap_offset(L, t)}
  ELSE {tap_offset(L, t), tap_offset(L, t) + 1}

(* C36: in every interval of a block of either kernel, every entry of      *)
(* filter_products a thread reads or writes, and in the product interval   *)
(* every entry of filter_taps it reads, has an index below                 *)
(* num_freqs * num_taps_per_filter, the number of entries the wrapper      *)
(* allocates.                                                              *)
C36_IndicesInBounds ==
  LET size == launch.num_freqs * launch.num_taps_per_filter
  IN kpc \in Intervals =>
       /\ shr_mem_taps(launch) = size
       /\ DOMAIN filter_products = 0 .. size - 1
       /\ \A t \in Threads(launch) :
            /\ ReadsOf(launch, kpc, t) \subseteq 0 .. size - 1
            /\ WritesOf(launch, kpc, t) \subseteq 0 .. size - 1
            /\ kpc = "product" => TapReadsOf(launch, t) \subseteq 0 .. size - 1

(* A block of decimate2048 of 2048 taps, whose last thread has used the    *)
(* last entry of shared memory and of the bank of taps, has made its tree  *)
(* steps.                                                                  *)
C36_Witness ==
  /\ launch.kernel = "decimate2048"
  /\ launch.num_taps_per_filter = 2048
  /\ kpc = "warp"
  /\ \E t \in Threads(launch) : tap_offset(launch, t) + 1 = shr_mem_taps(launch) - 1
  /\ \E t \in Threads(launch) : tree_active(launch, 512, t)
============================================================================
